---- MODULE Spec2Model ----
(***************************************************************************)
(* Model of the storage layers of hanfried-db: the pinning buffer pool     *)
(* (memory_management/buffer_manager.rs, buffer.rs), the write-ahead log   *)
(* manager (memory_management/log_manager.rs), the block file manager     *)
(* (file_management/file_manager.rs, page.rs), its cache of open file      *)
(* handles (utils/sync_resource_cache.rs) and the codecs (datatypes).      *)
(*                                                                         *)
(* The specifications below share the definitions:                         *)
(*   Spec        concurrent callers of BufferManager::pin / unpin, every   *)
(*               lock acquisition and per-buffer probe its own step;       *)
(*   PinSeqSpec  one caller of pin / unpin (PinSeqFairSpec adds that the   *)
(*               caller keeps running and that a wait times out);          *)
(*   EvictSpec   one caller that pins, modifies and unpins buffers;        *)
(*   BufSpec     one caller that pins, modifies, flushes and unpins        *)
(*               buffers on behalf of several transactions;                *)
(*   SeqSpec     one caller of pin, unpin, modify_page, flush, flush_all   *)
(*               and the log manager;                                      *)
(*   LogSpec     callers of LogManager::append / flush / iter on a         *)
(*               byte-level model of the log pages;                        *)
(*   CacheSpec   concurrent callers of FileManager::read, each call going  *)
(*               through SyncResourceCache::get_or_create;                 *)
(*   SharedFileSpec  concurrent callers of FileManager::read / write;      *)
(*   FileSpec    one caller of FileManager::read / write on several files  *)
(*               and blocks;                                               *)
(*   FaultSpec   one caller of FileManager::read / write / append /        *)
(*               block_length when a system call may fail;                 *)
(*   LongLogSpec callers of LogManager::append with records that do not    *)
(*               fit a block;                                              *)
(*   BufferApiSpec  one caller of the public operations of Buffer on       *)
(*               buffers made by Buffer::new;                              *)
(*   CloneSpec   one caller of the public operations of Buffer through     *)
(*               the clones of a buffer;                                   *)
(*   PageSpec    a writer and readers of set_bytes / get_bytes on one      *)
(*               Page, one step per acquisition of the page lock;          *)
(*   CodecSpec   serialize and deserialize of the codecs (datatypes), on   *)
(*               integers kept as their bytes;                             *)
(*   IterSpec    LogSpec with a caller of LogManager::iter and of next on  *)
(*               the iterator (LongIterSpec: over LongLogSpec);            *)
(*   LogFaultSpec  LogSpec with appends whose rotation fails in _flush,    *)
(*               in FileManager::append or in the write of the new block;  *)
(*   OsFileSpec  one caller of FileManager::append / block_length / write  *)
(*               on a file kept as its bytes;                              *)
(*   LockSpec    concurrent callers of the operations of the three         *)
(*               managers, each call reduced to the locks it takes.        *)
(***************************************************************************)
EXTENDS Integers, Sequences, FiniteSets, TLC

VARIABLES
    bufs,            \* pool: buffer index -> BufferData
    num_available,   \* BufferManager.num_available (usize behind a Mutex)
    naLock,          \* thread holding the num_available mutex, 0 = free
    naPoisoned,      \* the num_available mutex is poisoned
    bufPoisoned,     \* buffer index -> its data mutex is poisoned
    overflow_checks, \* build mode: TRUE = arithmetic overflow panics (debug)
    disk,            \* data file: block number -> page contents on disk
    head,            \* LogManager.head: page, block, latest, last_saved
    logfile,         \* log file on disk: sequence of pages, block k at k+1
    pc,              \* thread -> position inside the running call
    targ,            \* thread -> block_id argument of the running pin
    tbuf,            \* thread -> buffer the running call works on
    tidx,            \* thread -> pool index of the running linear scan
    timedOut,        \* thread -> the condvar wait ended by timeout
    held,            \* thread -> buffer index -> handles from pin not yet unpinned
    result,          \* thread -> outcome of the thread's last call
    calls,           \* number of pin calls started that have not failed
    hist,            \* records appended so far, oldest first
    returned,        \* the latest LSNs returned by append, in completion order
    lastOp,          \* the flush, flush_all, eviction or failed open just completed
    pre,             \* thread -> what the running pin saw when it was called
    internal_hash_map, \* SyncResourceCache: key -> Item (known, resource, freshness)
    open_resources,  \* SyncResourceCache.open_resources
    access_counter,  \* SyncResourceCache.access_counter
    handles,         \* the Arc<Mutex<File>> created so far: file, lock owner
    files,           \* file name -> contents on disk, block k at index k + 1
    fpc,             \* thread -> position inside the running read / write
    fop,             \* thread -> arguments of the running read / write
    fhandle,         \* thread -> handle returned by get_file
    written,         \* file name -> block -> page of the last completed write
    clones,          \* Buffer handle -> the BufferData its Arc points to, its origin
    codec,           \* the last codec call: value, buffer before and after, the
                     \* value read back
    byte_buffer,     \* the bytes of one Page shared by concurrent callers
    page_call,       \* thread -> its set_bytes / get_bytes on that Page: position,
                     \* value written or read, values a read may return
    fm_call,         \* the last FileManager call of the caller whose system calls
                     \* may fail: operation, failed system call, outcome
    log_iter,        \* the LogManagerIter of the reading caller: its fields, the
                     \* records it has yielded, the records on disk at iter()
    os_file,         \* one file as the operating system keeps it: its bytes, the
                     \* cursor of its handle, the last FileManager call on it
    lock_state       \* the locks of the managers: who holds which lock, the lock
                     \* operations each thread's running call has still to make,
                     \* the pairs (held, acquired) of lock kinds seen so far

poolVars == <<bufs, num_available, naLock, naPoisoned, bufPoisoned, overflow_checks>>
threadVars == <<pc, targ, tbuf, tidx, timedOut, held, result, calls, pre>>
logVars == <<head, logfile, hist, returned>>
cacheVars == <<internal_hash_map, open_resources, access_counter, handles>>
fileVars == <<internal_hash_map, open_resources, access_counter, handles, files,
              fpc, fop, fhandle, written>>
lateVars == <<os_file, lock_state>>
moreVars == <<log_iter, lateVars>>
extVars == <<clones, codec, byte_buffer, page_call, fm_call, moreVars>>
vars == <<bufs, num_available, naLock, naPoisoned, bufPoisoned, overflow_checks,
          disk, head, logfile, pc, targ, tbuf, tidx, timedOut, held, result,
          calls, hist, returned, lastOp, pre, internal_hash_map, open_resources,
          access_counter, handles, files, fpc, fop, fhandle, written, clones,
          codec, byte_buffer, page_call, fm_call, log_iter, os_file,
          lock_state>>

----------------------------------------------------------------------------
(* Bounds of the model *)

NThreads == 2
PoolSize == 2
NBlocks == 3
MaxCalls == 3
MaxVal == 1
MaxTx == 1
BlockSize == 16
MaxRecLen == 2
MaxByte == 2
MaxAppends == 3
MaxSeqAppends == 2
MaxSeqCalls == 2
NFiles == 3
NFileBlocks == 2
MaxOpenFiles == 2
MaxFileOps == 4
MaxWrittenBlocks == 2
MaxFlushTx == 2
MaxBufBlock == 1

Threads == 1..NThreads
Pool == 1..PoolSize
Blocks == 0..(NBlocks - 1)
FileNames == 1..NFiles
FileBlocks == 0..(NFileBlocks - 1)

----------------------------------------------------------------------------
(* Option niches and machine integers *)

NoBlock == -1
NoLsn == -1
NoTx == 0
UsizeMod == 1048576

UsizeAdd(x, y) == (x + y) % UsizeMod
UsizeSub(x, y) == (x - y + UsizeMod) % UsizeMod

----------------------------------------------------------------------------
(* Page: a fixed-length byte buffer; offset o of the page is element o+1 *)

ZeroPage == [i \in 1..BlockSize |-> 0]

\* copy_from_slice of bytes into page[off .. off+Len(bytes))
SetRange(page, off, bytes) ==
    [i \in 1..Len(page) |->
        IF i - 1 >= off /\ i - 1 < off + Len(bytes) THEN bytes[i - off] ELSE page[i]]

GetRange(page, off, n) == [i \in 1..n |-> page[off + i]]

\* i32::to_le_bytes (two's complement, least significant byte first)
I32ToLe(v) ==
    << v % 256, (v \div 256) % 256, (v \div 65536) % 256, (v \div 16777216) % 256 >>

\* i32::from_le_bytes
I32FromLe(b) ==
    b[1] + 256 * b[2] + 65536 * b[3]
      + 16777216 * (IF b[4] >= 128 THEN b[4] - 256 ELSE b[4])

get_i32(page, off) == I32FromLe(GetRange(page, off, 4))
set_i32(page, off, v) == SetRange(page, off, I32ToLe(v))

\* Varcount::serialized_length: smallest N with value < 2^(7N)
VarcountLen(v) ==
    IF v < 128 THEN 1 ELSE IF v < 16384 THEN 2 ELSE IF v < 2097152 THEN 3 ELSE 4

\* the leading-ones prefix or-ed into the first byte
VarcountMask(n) == IF n = 1 THEN 0 ELSE IF n = 2 THEN 128 ELSE IF n = 3 THEN 192 ELSE 224

\* Varcount::serialize: big-endian value in N bytes, prefix in the first byte
VarcountSer(v) ==
    LET n == VarcountLen(v)
        be == [i \in 1..n |-> (v \div (256 ^ (n - i))) % 256]
    IN [be EXCEPT ![1] = be[1] + VarcountMask(n)]

\* length announced by the first byte of a serialized Varcount
VarcountLenOf(b0) ==
    IF b0 < 128 THEN 1 ELSE IF b0 < 192 THEN 2 ELSE IF b0 < 224 THEN 3 ELSE 4

\* Varcount::deserialize of the bytes of page at off
VarcountDe(page, off) ==
    LET n == VarcountLenOf(page[off + 1])
        b == [i \in 1..n |->
                IF i = 1 THEN page[off + 1] - VarcountMask(n) ELSE page[off + i]]
        RECURSIVE Val(_)
        Val(k) == IF k = 0 THEN 0 ELSE 256 * Val(k - 1) + b[k]
    IN Val(n)

\* Page::set_bytes: Varcount length prefix, then the bytes
set_bytes(page, off, value) ==
    LET prefix == VarcountSer(Len(value))
    IN SetRange(SetRange(page, off, prefix), off + Len(prefix), value)

\* the outcome of a call that panics on a slice index out of range
PanicBytes == << -1 >>

\* Page::get_bytes; the slices byte_buffer[offset..] and
\* byte_buffer[offset..offset + length] panic when they leave the page
get_bytes(page, off) ==
    IF off >= Len(page) \/ off + VarcountLenOf(page[off + 1]) > Len(page)
    THEN PanicBytes
    ELSE LET n == VarcountDe(page, off)
         IN IF off + VarcountLen(n) + n > Len(page) THEN PanicBytes
            ELSE GetRange(page, off + VarcountLen(n), n)

----------------------------------------------------------------------------
(* Codecs (datatypes): an integer is the tuple of its bytes, most significant
   first, as to_be_bytes yields it; a buffer is a sequence of bytes, element
   i + 1 holding buffer[i] *)

BitOf(b, k) == (b \div (2 ^ k)) % 2

\* a & m and a | m on bytes
ByteAnd(a, m) ==
    LET RECURSIVE F(_)
        F(k) == IF k = 8 THEN 0 ELSE (2 ^ k) * (BitOf(a, k) * BitOf(m, k)) + F(k + 1)
    IN F(0)

ByteOr(a, m) ==
    LET RECURSIVE F(_)
        F(k) == IF k = 8 THEN 0
                ELSE (2 ^ k) * (IF BitOf(a, k) + BitOf(m, k) > 0 THEN 1 ELSE 0) + F(k + 1)
    IN F(0)

\* 0 as a 64-bit integer and 1 << k
Zero64 == [i \in 1..8 |-> 0]
Shl1(k) == [i \in 1..8 |-> IF 8 - i = k \div 8 THEN 2 ^ (k % 8) ELSE 0]

\* a < b on u64, and on i64 (two's complement)
ULess(a, b) ==
    \E i \in 1..Len(a) : a[i] < b[i] /\ \A j \in 1..(i - 1) : a[j] = b[j]

ILess(a, b) ==
    IF (a[1] >= 128) # (b[1] >= 128) THEN a[1] >= 128 ELSE ULess(a, b)

\* wrapping v + 1, v - 1 and -v
Inc(v) ==
    LET nz == {i \in 1..Len(v) : v[i] # 255}
        k == IF nz = {} THEN 0 ELSE CHOOSE i \in nz : \A j \in nz : j <= i
    IN [i \in 1..Len(v) |-> IF i > k THEN 0 ELSE IF i = k THEN v[i] + 1 ELSE v[i]]

Dec(v) ==
    LET nz == {i \in 1..Len(v) : v[i] # 0}
        k == IF nz = {} THEN 0 ELSE CHOOSE i \in nz : \A j \in nz : j <= i
    IN [i \in 1..Len(v) |-> IF i > k THEN 255 ELSE IF i = k THEN v[i] - 1 ELSE v[i]]

Neg(v) == Inc([i \in 1..Len(v) |-> 255 - v[i]])

\* the first element of 1..8 for which P holds, 9 if there is none: the loop
\* for leading_bits in 1..=8 { if P { return leading_bits } } 9
FirstOr9(S) == IF S = {} THEN 9 ELSE CHOOSE n \in S : \A m \in S : n <= m

\* Varint::serialized_length
VarintSerializedLength(v) ==
    FirstOr9({n \in 1..8 :
                 \/ ~ILess(v, Shl1(7 * n - 1)) /\ ILess(v, Zero64)
                 \/ ~ILess(v, Zero64) /\ ILess(v, Shl1(7 * n - 1))})

\* the masks of Varint::serialize for the lengths 1..7: buffer[0] &= .., |= ..
VarintAndMask == << 127, 191, 223, 239, 247, 251, 237 >>
VarintOrMask == << 0, 128, 192, 224, 240, 248, 252 >>

\* Varint::serialize into buffer; PanicBytes when a slice index or
\* copy_from_slice panics
VarintSerialize(v, buffer) ==
    LET length == VarintSerializedLength(v)
    IN IF length <= 8
       THEN IF Len(buffer) < length THEN PanicBytes
            ELSE LET b == SetRange(buffer, 0, SubSeq(v, 9 - length, 8))
                 IN [b EXCEPT ![1] = IF length = 8 THEN 254
                                      ELSE ByteOr(ByteAnd(@, VarintAndMask[length]),
                                                  VarintOrMask[length])]
       ELSE IF Len(buffer) # 9 THEN PanicBytes
            ELSE << 255 >> \o v

\* the length announced by the first byte of a Varint or Varlength
LeadingLength(b0) ==
    IF b0 < 128 THEN 1 ELSE IF b0 < 192 THEN 2 ELSE IF b0 < 224 THEN 3
    ELSE IF b0 < 240 THEN 4 ELSE IF b0 < 248 THEN 5 ELSE IF b0 < 252 THEN 6
    ELSE IF b0 < 254 THEN 7 ELSE IF b0 < 255 THEN 8 ELSE 9

\* the masks of fill_up_leading_zero_or_ones_for_two_complement
FillOrMask == << 128, 192, 224, 240, 248, 252, 254 >>
FillAndMask == << 127, 63, 31, 15, 7, 3, 1 >>

\* fill_up_leading_zero_or_ones_for_two_complement for leading_bits in 1..7
FillUp(bytes_full, leading_bits) ==
    LET nr == 9 - leading_bits
        highest_byte == bytes_full[nr]
        negative_number == ByteAnd(highest_byte, 128 \div (2 ^ leading_bits)) > 0
    IN [i \in 1..8 |->
          IF i < nr THEN (IF negative_number THEN 255 ELSE 0)
          ELSE IF i = nr
          THEN (IF negative_number THEN ByteOr(highest_byte, FillOrMask[leading_bits])
                ELSE ByteAnd(highest_byte, FillAndMask[leading_bits]))
          ELSE bytes_full[i]]

\* Varint::deserialize; PanicBytes when the buffer is shorter than the
\* first byte announces
VarintDeserialize(buffer) ==
    IF Len(buffer) = 0 THEN PanicBytes
    ELSE LET n == LeadingLength(buffer[1])
         IN IF Len(buffer) < n THEN PanicBytes
            ELSE IF n <= 7
            THEN FillUp([i \in 1..8 |-> IF i >= 9 - n THEN buffer[i - (8 - n)] ELSE 0], n)
            ELSE IF n = 8
            THEN [i \in 1..8 |-> IF i = 1 THEN (IF buffer[2] <= 127 THEN 0 ELSE 255)
                                 ELSE buffer[i]]
            ELSE SubSeq(buffer, 2, 9)

\* Varlength::serialized_length
VarlengthSerializedLength(v) == FirstOr9({n \in 1..8 : ULess(v, Shl1(7 * n))})

\* the masks of Varlength::serialize for the lengths 1..8: buffer[0] |= ..
VarlengthOrMask == << 0, 128, 192, 224, 240, 248, 252, 254 >>

\* Varlength::serialize
VarlengthSerialize(v, buffer) ==
    LET length == VarlengthSerializedLength(v)
    IN IF length <= 8
       THEN IF Len(buffer) < length THEN PanicBytes
            ELSE LET b == SetRange(buffer, 0, SubSeq(v, 9 - length, 8))
                 IN [b EXCEPT ![1] = ByteOr(@, VarlengthOrMask[length])]
       ELSE IF Len(buffer) # 9 THEN PanicBytes
            ELSE << 255 >> \o v

\* the masks of Varlength::deserialize for the lengths 1..7: bytes_full[..] &= ..
VarlengthAndMask == << 255, 63, 31, 15, 7, 3, 1 >>

\* Varlength::deserialize
VarlengthDeserialize(buffer) ==
    IF Len(buffer) = 0 THEN PanicBytes
    ELSE LET n == LeadingLength(buffer[1])
         IN IF Len(buffer) < n THEN PanicBytes
            ELSE IF n <= 7
            THEN [i \in 1..8 |->
                    IF i < 9 - n THEN 0
                    ELSE IF i = 9 - n THEN ByteAnd(buffer[1], VarlengthAndMask[n])
                    ELSE buffer[i - (8 - n)]]
            ELSE IF n = 8
            THEN [i \in 1..8 |-> IF i = 1 THEN 0 ELSE buffer[i]]
            ELSE SubSeq(buffer, 2, 9)

\* the fixed-width integers and counts (TinyInteger .. HugeInteger, TinyCount
\* .. HugeCount): serialize copies to_le_bytes into buffer[..width]
FixedSerialize(v, buffer) ==
    IF Len(buffer) < Len(v) THEN PanicBytes
    ELSE SetRange(buffer, 0, [i \in 1..Len(v) |-> v[Len(v) + 1 - i]])

\* from_le_bytes of the first width bytes
FixedDeserialize(width, buffer) ==
    IF Len(buffer) < width THEN PanicBytes
    ELSE [i \in 1..width |-> buffer[width + 1 - i]]

\* value.len() as u64 and varlength as usize, for lengths below 2^16
U64Of(n) == [i \in 1..8 |-> IF i = 8 THEN n % 256 ELSE IF i = 7 THEN n \div 256 ELSE 0]
UsizeOf(v) == 256 * v[7] + v[8]

\* String::from_utf8_lossy(..).to_string() on bytes that hold ASCII text: a
\* byte that is not ASCII becomes U+FFFD
RECURSIVE Utf8Lossy(_)
Utf8Lossy(s) ==
    IF s = << >> THEN << >>
    ELSE (IF Head(s) < 128 THEN << Head(s) >> ELSE << 239, 191, 189 >>)
         \o Utf8Lossy(Tail(s))

\* a codec value is the sequence of its parts, one part for a Varint,
\* Varcount, fixed-width integer or count and Varchar, left and right for a
\* Varpair; a part has its kind, its integer v (the varlength of a Varchar)
\* and the bytes of its string
Varint(v) == << [kind |-> "Varint", v |-> v, data |-> << >>] >>
Varcount(v) == << [kind |-> "Varcount", v |-> v, data |-> << >>] >>
Fixed(v) == << [kind |-> "Fixed", v |-> v, data |-> << >>] >>
Varchar(data) == << [kind |-> "Varchar", v |-> U64Of(Len(data)), data |-> data] >>
Varpair(left, right) == left \o right

\* the outcome of a deserialize that panics
PanicValue == [kind |-> "panic", v |-> << >>, data |-> << >>]

\* serialized_length of a part
SerializedLength1(x) ==
    IF x.kind = "Varint" THEN VarintSerializedLength(x.v)
    ELSE IF x.kind = "Varcount" THEN VarlengthSerializedLength(x.v)
    ELSE IF x.kind = "Fixed" THEN Len(x.v)
    ELSE VarlengthSerializedLength(x.v) + Len(x.data)

\* Varchar::serialize
VarcharSerialize(x, buffer) ==
    LET b == VarlengthSerialize(x.v, buffer)
        offset_str == VarlengthSerializedLength(x.v)
    IN IF b = PanicBytes \/ offset_str + Len(x.data) > Len(buffer) THEN PanicBytes
       ELSE SetRange(b, offset_str, x.data)

\* Varchar::deserialize
VarcharDeserialize(buffer) ==
    LET varlength == VarlengthDeserialize(buffer)
    IN IF varlength = PanicBytes THEN PanicValue
       ELSE IF \E i \in 1..6 : varlength[i] # 0 THEN PanicValue
       ELSE LET offset_str == VarlengthSerializedLength(varlength)
            IN IF offset_str + UsizeOf(varlength) > Len(buffer) THEN PanicValue
               ELSE [kind |-> "Varchar", v |-> varlength,
                     data |-> Utf8Lossy(SubSeq(buffer, offset_str + 1,
                                               offset_str + UsizeOf(varlength)))]

\* serialize of a part
Serialize1(x, buffer) ==
    IF x.kind = "Varint" THEN VarintSerialize(x.v, buffer)
    ELSE IF x.kind = "Varcount" THEN VarlengthSerialize(x.v, buffer)
    ELSE IF x.kind = "Fixed" THEN FixedSerialize(x.v, buffer)
    ELSE VarcharSerialize(x, buffer)

\* T::deserialize for the type T of the part x
Deserialize1(x, buffer) ==
    IF x.kind = "Varchar" THEN VarcharDeserialize(buffer)
    ELSE LET v == IF x.kind = "Varint" THEN VarintDeserialize(buffer)
                  ELSE IF x.kind = "Varcount" THEN VarlengthDeserialize(buffer)
                  ELSE FixedDeserialize(Len(x.v), buffer)
         IN IF v = PanicBytes THEN PanicValue
            ELSE [kind |-> x.kind, v |-> v, data |-> << >>]

\* HfdbSerializableDatatype::serialized_length
SerializedLength(x) ==
    IF Len(x) = 2 THEN SerializedLength1(x[1]) + SerializedLength1(x[2])
    ELSE SerializedLength1(x[1])

\* HfdbSerializableDatatype::serialize; Varpair::serialize hands the whole
\* buffer to left and the rest behind left's length to right
Serialize(x, buffer) ==
    IF Len(x) = 2
    THEN LET b == Serialize1(x[1], buffer)
             n == SerializedLength1(x[1])
         IN IF b = PanicBytes \/ n > Len(buffer) THEN PanicBytes
            ELSE LET r == Serialize1(x[2], SubSeq(b, n + 1, Len(b)))
                 IN IF r = PanicBytes THEN PanicBytes ELSE SubSeq(b, 1, n) \o r
    ELSE Serialize1(x[1], buffer)

\* HfdbSerializableDatatype::deserialize for the type of x
Deserialize(x, buffer) ==
    IF Len(x) = 2
    THEN LET left == Deserialize1(x[1], buffer)
         IN IF left = PanicValue THEN << PanicValue >>
            ELSE IF SerializedLength1(left) > Len(buffer) THEN << PanicValue >>
            ELSE LET right == Deserialize1(x[2],
                                 SubSeq(buffer, SerializedLength1(left) + 1, Len(buffer)))
                 IN IF right = PanicValue THEN << PanicValue >> ELSE << left, right >>
    ELSE << Deserialize1(x[1], buffer) >>

----------------------------------------------------------------------------
(* FileManager: a file is the sequence of its blocks *)

\* an open that truncates the file it opens
FmOpenTruncate(file) == << >>

\* get_file: OpenOptions read, write, create, truncate(false): a file that
\* does not exist is created empty, an existing one keeps its blocks
FmOpen(file) == file

\* FileManager::block_length: floor(file_length / block_size)
FmBlockLength(file) == Len(file)

\* FileManager::append: the block number after the last block; the file
\* itself is not changed
FmAppend(file) == FmBlockLength(file)

\* FileManager::read: short reads leave the rest of the page zero
FmRead(file, blk) == IF blk < Len(file) THEN file[blk + 1] ELSE ZeroPage

\* FileManager::write: seek to blk * block_size and write the whole page
FmWrite(file, blk, page) ==
    LET n == IF blk + 1 > Len(file) THEN blk + 1 ELSE Len(file)
    IN [i \in 1..n |->
          IF i = blk + 1 THEN page ELSE IF i <= Len(file) THEN file[i] ELSE ZeroPage]

----------------------------------------------------------------------------
(* LogManager: operators over the head h and the log file *)

\* i32 as usize (sign-extending cast, reduced to the modelled width)
AsUsize(x) == x % UsizeMod

\* _flush that records last_saved without writing the head page
LogFlushInnerNoWrite(h, file) ==
    [head |-> [h EXCEPT !.last_saved = h.latest], file |-> file]

\* LogManager::_flush: write the head page to its block, last_saved <- latest
LogFlushInner(h, file) ==
    [head |-> [h EXCEPT !.last_saved = h.latest],
     file |-> FmWrite(file, h.block, h.page)]

\* the guard of LogManager::flush
LogFlushNeeded(h, lsn) == lsn >= h.latest

\* flush that records the requested lsn as saved
LogFlushToRequested(h, file, lsn) ==
    IF LogFlushNeeded(h, lsn)
    THEN [head |-> [h EXCEPT !.last_saved = lsn], file |-> FmWrite(file, h.block, h.page)]
    ELSE [head |-> h, file |-> file]

\* LogManager::flush
LogFlush(h, file, lsn) ==
    IF LogFlushNeeded(h, lsn) THEN LogFlushInner(h, file)
    ELSE [head |-> h, file |-> file]

\* append_new_block that forgets to write the fresh block
AppendNewBlockNoWrite(file, page) ==
    [block |-> FmAppend(file), page |-> set_i32(page, 0, BlockSize), file |-> file]

\* LogManager::append_new_block: the page is reused, only its boundary is reset
AppendNewBlock(file, page) ==
    LET blk == FmAppend(file)
        pg == set_i32(page, 0, BlockSize)
    IN [block |-> blk, page |-> pg, file |-> FmWrite(file, blk, pg)]

\* a rotation test that forgets the four bytes of the boundary field
NeedsNewBlockNoSlot(boundary, record_size) == AsUsize(boundary) < record_size + 4

\* the rotation test of LogManager::append
NeedsNewBlock(boundary, record_size) == AsUsize(boundary) < (record_size + 4) + 4

\* a rotation that allocates the new block without flushing the old head page
LogRotateNoFlush(h, file, record_size) ==
    IF NeedsNewBlock(get_i32(h.page, 0), record_size)
    THEN LET nb == AppendNewBlock(file, h.page)
         IN [head |-> [h EXCEPT !.block = nb.block, !.page = nb.page],
             file |-> nb.file]
    ELSE [head |-> h, file |-> file]

\* the head and the file after the optional rotation of LogManager::append
LogRotate(h, file, record_size) ==
    IF NeedsNewBlock(get_i32(h.page, 0), record_size)
    THEN LET f == LogFlushInner(h, file)
             nb == AppendNewBlock(f.file, f.head.page)
         IN [head |-> [f.head EXCEPT !.block = nb.block, !.page = nb.page],
             file |-> nb.file]
    ELSE [head |-> h, file |-> file]

\* a LogPosition whose latest is not the LSN of the appended record
LogReturnedStale(h) == [latest |-> h.latest - 1, last_saved |-> h.last_saved]

\* the LogPosition returned by LogManager::append
LogReturned(h) == [latest |-> h.latest, last_saved |-> h.last_saved]

\* LogManager::append, the whole call under the head lock
LogAppend(h, file, rec) ==
    LET r == LogRotate(h, file, Len(rec))
        boundary == get_i32(r.head.page, 0)
        record_pos == boundary - (Len(rec) + 4)
        pg == set_i32(set_bytes(r.head.page, record_pos, rec), 0, record_pos)
        h2 == [r.head EXCEPT !.page = pg, !.latest = r.head.latest + 1]
    IN [head |-> h2, file |-> r.file, pos |-> LogReturned(h2)]

\* LogManager::new on an empty log file
LogNew ==
    LET nb == AppendNewBlock(<< >>, ZeroPage)
    IN [head |-> [page |-> nb.page, block |-> nb.block, latest |-> 0, last_saved |-> 0],
        file |-> nb.file]

\* LogManager::iter: the iterator starts on the head block as it is on disk
LogIter(h, file) ==
    LET pg == FmRead(file, h.block)
    IN [block |-> h.block, page |-> pg,
        pos_current |-> get_i32(pg, 0), boundary |-> get_i32(pg, 0)]

\* LogManagerIter::next: has_next
IterHasNext(it) == it.pos_current < BlockSize \/ it.block > 0

\* LogManagerIter::next: the iterator after the optional step to the previous block
IterStepBlock(it, file) ==
    IF it.pos_current = BlockSize
    THEN LET pg == FmRead(file, it.block - 1)
         IN [block |-> it.block - 1, page |-> pg,
             pos_current |-> get_i32(pg, 0), boundary |-> get_i32(pg, 0)]
    ELSE it

\* a next() that takes the boundary of its first block from the disk when it
\* is first called, not when iter() was called
IterNextLive(it, file) ==
    LET pg == FmRead(file, it.block)
        it1 == IF it.pos_current = it.boundary
               THEN [it EXCEPT !.page = pg, !.pos_current = get_i32(pg, 0),
                               !.boundary = get_i32(pg, 0)]
               ELSE it
        it2 == IterStepBlock(it1, file)
        record == get_bytes(it2.page, it2.pos_current)
    IN [rec |-> record,
        it |-> [it2 EXCEPT !.pos_current = it2.pos_current + 4 + Len(record)]]

\* LogManagerIter::next for an iterator that has a next record: the record
\* and the advanced iterator
IterNext(it, file) ==
    LET it2 == IterStepBlock(it, file)
        record == get_bytes(it2.page, it2.pos_current)
    IN [rec |-> record,
        it |-> [it2 EXCEPT !.pos_current = it2.pos_current + 4 + Len(record)]]

\* the records a for-loop over the iterator collects, at most n of them
RECURSIVE IterDrain(_, _, _)
IterDrain(it, file, n) ==
    IF n = 0 \/ ~IterHasNext(it) THEN << >>
    ELSE LET nx == IterNext(it, file)
         IN IF nx.rec = PanicBytes THEN << PanicBytes >>
            ELSE << nx.rec >> \o IterDrain(nx.it, file, n - 1)

\* get_log_records: iter() and collect
LogRecords(h, file) == IterDrain(LogIter(h, file), file, MaxAppends + 3)

----------------------------------------------------------------------------
(* SyncResourceCache<String, Arc<Mutex<File>>>: operators over a cache value
   c = [internal_hash_map, open_resources, access_counter]; a key that is not
   in the HashMap has known = FALSE *)

NoHandle == 0

\* an Item of the HashMap; resource = NoHandle is None
NoItem == [known |-> FALSE, resource |-> NoHandle, freshness |-> 0]

\* SyncResourceCache::new(MaxOpenFiles)
CacheNew ==
    [internal_hash_map |-> [k \in FileNames |-> NoItem],
     open_resources |-> 0,
     access_counter |-> 0]

KnownKeys(m) == {k \in FileNames : m[k].known}

\* resource_is_open
OpenKeys(m) == {k \in FileNames : m[k].known /\ m[k].resource # NoHandle}

\* an eviction that may take the handle of any open item
AnyOpenKeys(m) == OpenKeys(m)

\* the items min_by_key can return: HashMap iteration order is unspecified,
\* so among open items of equal minimal freshness any one may be first
MinFreshKeys(m) ==
    {k \in OpenKeys(m) : \A j \in OpenKeys(m) : m[k].freshness <= m[j].freshness}

\* refresh_access under the write lock: the compare-exchange is uncontended
RefreshAccess(c, key) ==
    [c EXCEPT !.internal_hash_map[key].freshness = c.access_counter + (@ \div 2),
              !.access_counter = @ + 1]

\* making room that counts every opened handle and never evicts
MakeRoomAlwaysCount(c, victim) ==
    [c EXCEPT !.open_resources = @ + 1]

\* get_or_create, lines 101-113: below capacity the counter grows, at
\* capacity the handle of victim is dropped and its key stays in the map
MakeRoom(c, victim) ==
    IF c.open_resources < MaxOpenFiles
    THEN [c EXCEPT !.open_resources = @ + 1]
    ELSE [c EXCEPT !.internal_hash_map[victim].resource = NoHandle]

\* get_or_create, lines 115-121: insert the new Item
InsertItem(c, key, h) ==
    [c EXCEPT !.internal_hash_map[key] =
                  [known |-> TRUE, resource |-> h, freshness |-> c.access_counter],
              !.access_counter = @ + 1]

\* get_or_create under the read lock: the handle of an open item, or NoHandle
ProbeRead(c, key) ==
    IF key \in OpenKeys(c.internal_hash_map)
    THEN c.internal_hash_map[key].resource
    ELSE NoHandle

\* a write-lock section that does not look again and always calls the factory
ProbeWriteNoRecheck(c, key, h, victim) ==
    IF h = NoHandle
    THEN [cache |-> c, handle |-> NoHandle, created |-> FALSE]
    ELSE [cache |-> InsertItem(MakeRoom(c, victim), key, h),
          handle |-> h, created |-> TRUE]

\* a write-lock section that makes room before it calls the factory
ProbeWriteEvictFirst(c, key, h, victim) ==
    IF key \in OpenKeys(c.internal_hash_map)
    THEN [cache |-> RefreshAccess(c, key),
          handle |-> c.internal_hash_map[key].resource, created |-> FALSE]
    ELSE IF h = NoHandle
    THEN [cache |-> MakeRoom(c, victim), handle |-> NoHandle, created |-> FALSE]
    ELSE [cache |-> InsertItem(MakeRoom(c, victim), key, h),
          handle |-> h, created |-> TRUE]

\* get_or_create under the write lock (lines 91-122) for a factory that
\* yields handle h, or fails when h = NoHandle: a hit is refreshed; a failed
\* factory returns before anything is touched
ProbeWrite(c, key, h, victim) ==
    IF key \in OpenKeys(c.internal_hash_map)
    THEN [cache |-> RefreshAccess(c, key),
          handle |-> c.internal_hash_map[key].resource, created |-> FALSE]
    ELSE IF h = NoHandle
    THEN [cache |-> c, handle |-> NoHandle, created |-> FALSE]
    ELSE [cache |-> InsertItem(MakeRoom(c, victim), key, h),
          handle |-> h, created |-> TRUE]

\* the state of FileManager calls
NoPage == << >>
NoFileOp == [kind |-> "none", file |-> 0, block |-> 0, page |-> NoPage]

----------------------------------------------------------------------------
(* Buffer: operators over one BufferData d *)

\* Buffer::new
NewBuffer ==
    [page |-> ZeroPage, block |-> NoBlock, transaction |-> NoTx,
     log_sequence_number |-> NoLsn, pins_count |-> 0]

\* Buffer::is_pinned
IsPinned(d) == d.pins_count > 0

\* Buffer::_flush for a buffer with a bound block: a dirty page is written
\* after the log manager has been asked to flush its log_sequence_number
BufFlushInner(d, dsk, h, lf) ==
    IF d.transaction # NoTx
    THEN LET lg == IF d.log_sequence_number # NoLsn
                   THEN LogFlush(h, lf, d.log_sequence_number)
                   ELSE [head |-> h, file |-> lf]
         IN [buf |-> [d EXCEPT !.transaction = NoTx],
             disk |-> FmWrite(dsk, d.block, d.page),
             head |-> lg.head, file |-> lg.file]
    ELSE [buf |-> d, disk |-> dsk, head |-> h, file |-> lf]

\* assign_to_block that rebinds without flushing the dirty page
AssignToBlockNoFlush(d, b, dsk, h, lf) ==
    [buf |-> [d EXCEPT !.block = b, !.page = FmRead(dsk, b), !.pins_count = 0,
                       !.transaction = NoTx],
     disk |-> dsk, head |-> h, file |-> lf]

\* Buffer::assign_to_block: flush, bind, read the block, reset the pin count
AssignToBlock(d, b, dsk, h, lf) ==
    LET f == BufFlushInner(d, dsk, h, lf)
    IN [f EXCEPT !.buf = [f.buf EXCEPT !.block = b,
                                       !.page = FmRead(f.disk, b),
                                       !.pins_count = 0]]

\* Buffer::modify_page with a modifier that stores the Integer v at offset off
ModifyPage(d, off, v, tx, lsn) ==
    [d EXCEPT !.page = set_i32(d.page, off, v),
              !.transaction = tx,
              !.log_sequence_number = lsn]

----------------------------------------------------------------------------
(* Initial state: the managers right after construction on empty files *)

\* nothing seen: no pin call is running
NoPre == [na |-> 0, buf |-> 0, pins |-> 0]

NoOp == [op |-> "none", lsn |-> NoLsn, buf |-> 0, block |-> NoBlock, tx |-> NoTx]

\* the handles of the pool's Vec<Buffer>: handle i owns the data of buffer i
PoolHandles == [i \in Pool |-> [data |-> i, of |-> i]]

\* no codec call is under way
NoCodec ==
    [st |-> "idle", value |-> << >>, before |-> << >>, length |-> 0, out |-> << >>,
     back |-> << >>]

\* no set_bytes / get_bytes is under way
NoPageCall ==
    [pc |-> "idle", op |-> "none", value |-> << >>, old |-> << >>, length |-> 0,
     allowed |-> {}]

\* no iterator has been made
NoIter ==
    [st |-> "none", block |-> 0, page |-> << >>, pos_current |-> 0, boundary |-> 0,
     yielded |-> << >>, on_disk |-> << >>]

\* a file just created by get_file: empty, cursor at 0, no call made on it
NewOsFile == [bytes |-> << >>, pos |-> 0, op |-> "none", block |-> 0, result |-> 0]

\* no lock is held and no call is running
NoLocks == [held |-> {}, prog |-> [t \in Threads |-> << >>], order |-> {}]

\* no FileManager call has been made
NoFmCall ==
    [op |-> "none", file |-> 0, block |-> 0, failed |-> "none", outcome |-> "none",
     page |-> << >>]

\* everything but the codec call
InitManagers ==
    /\ bufs = [i \in Pool |-> NewBuffer]
    /\ num_available = PoolSize
    /\ naLock = 0
    /\ naPoisoned = FALSE
    /\ bufPoisoned = [i \in Pool |-> FALSE]
    /\ overflow_checks \in BOOLEAN
    /\ disk = << >>
    /\ head = LogNew.head
    /\ logfile = LogNew.file
    /\ pc = [t \in Threads |-> "idle"]
    /\ targ = [t \in Threads |-> NoBlock]
    /\ tbuf = [t \in Threads |-> 1]
    /\ tidx = [t \in Threads |-> 1]
    /\ timedOut = [t \in Threads |-> FALSE]
    /\ held = [t \in Threads |-> [i \in Pool |-> 0]]
    /\ result = [t \in Threads |-> "None"]
    /\ calls = 0
    /\ hist = << >>
    /\ returned = << >>
    /\ lastOp = NoOp
    /\ pre = [t \in Threads |-> NoPre]
    /\ internal_hash_map = CacheNew.internal_hash_map
    /\ open_resources = CacheNew.open_resources
    /\ access_counter = CacheNew.access_counter
    /\ handles = << >>
    /\ files = [f \in FileNames |-> << >>]
    /\ fpc = [t \in Threads |-> "idle"]
    /\ fop = [t \in Threads |-> NoFileOp]
    /\ fhandle = [t \in Threads |-> NoHandle]
    /\ written = [f \in FileNames |-> [b \in FileBlocks |-> NoPage]]
    /\ clones = PoolHandles
    /\ byte_buffer = ZeroPage
    /\ page_call = [t \in Threads |-> NoPageCall]
    /\ fm_call = NoFmCall
    /\ log_iter = NoIter
    /\ os_file = NewOsFile
    /\ lock_state = NoLocks

Init == InitManagers /\ codec = NoCodec

----------------------------------------------------------------------------
(* BufferManager::pin and unpin, one step per lock acquisition *)

\* a panic of thread t: the mutexes whose guards it holds are poisoned and
\* released while the stack unwinds
Panic(t, heldBufs) ==
    /\ pc' = [pc EXCEPT ![t] = "panicked"]
    /\ naPoisoned' = (naPoisoned \/ naLock = t)
    /\ naLock' = IF naLock = t THEN 0 ELSE naLock
    /\ bufPoisoned' = [i \in Pool |-> bufPoisoned[i] \/ i \in heldBufs]
    /\ UNCHANGED <<bufs, num_available, overflow_checks, disk, head, logfile,
                   targ, tbuf, tidx, timedOut, held, result, calls, hist,
                   returned, lastOp, pre,
                   fileVars, extVars>>

\* no buffer is bound to b and every buffer is pinned
Exhausted(b) == \A i \in Pool : IsPinned(bufs[i]) /\ bufs[i].block # b

\* the pool as a call pin(b) finds it: num_available, the first buffer bound
\* to b (0 if there is none) and that buffer's pin count
PinSees(b) ==
    LET bound == {i \in Pool : bufs[i].block = b}
        first == IF bound = {} THEN 0
                 ELSE CHOOSE i \in bound : \A j \in bound : i <= j
    IN [na |-> num_available, buf |-> first,
        pins |-> IF first = 0 THEN 0 ELSE bufs[first].pins_count]

\* the call pin(b) starts: try_to_pin begins its scan for an existing buffer
StartPin(t, b) ==
    /\ pc[t] = "idle"
    /\ pc' = [pc EXCEPT ![t] = "find"]
    /\ targ' = [targ EXCEPT ![t] = b]
    /\ tidx' = [tidx EXCEPT ![t] = 1]
    /\ calls' = calls + 1
    /\ pre' = [pre EXCEPT ![t] = PinSees(b)]
    /\ lastOp' = NoOp
    /\ UNCHANGED <<poolVars, disk, logVars, tbuf, timedOut, held, result, fileVars, extVars>>

\* try_to_pin: pool.iter().find(|buffer| buffer.block() == Some(block_id)),
\* one buffer probed per step, each under that buffer's lock
FindStep(t) ==
    /\ pc[t] = "find"
    /\ IF bufPoisoned[tidx[t]] THEN Panic(t, {})
       ELSE /\ IF bufs[tidx[t]].block = targ[t]
               THEN /\ pc' = [pc EXCEPT ![t] = "check_pinned"]
                    /\ tbuf' = [tbuf EXCEPT ![t] = tidx[t]]
                    /\ tidx' = [tidx EXCEPT ![t] = 1]
               ELSE IF tidx[t] < PoolSize
               THEN /\ tidx' = [tidx EXCEPT ![t] = tidx[t] + 1]
                    /\ UNCHANGED <<pc, tbuf>>
               ELSE /\ pc' = [pc EXCEPT ![t] = "choose"]
                    /\ tidx' = [tidx EXCEPT ![t] = 1]
                    /\ tbuf' = tbuf
            /\ UNCHANGED <<poolVars, disk, logVars, targ, timedOut, held, result,
                           calls, lastOp, pre,
                   fileVars, extVars>>

\* choose_unpinned_buffer: pool.iter().find(|buffer| buffer.is_not_pinned()),
\* one buffer probed per step; the first unpinned buffer is returned
ChooseStep(t) ==
    /\ pc[t] = "choose"
    /\ IF bufPoisoned[tidx[t]] THEN Panic(t, {})
       ELSE /\ IF ~IsPinned(bufs[tidx[t]])
               THEN /\ pc' = [pc EXCEPT ![t] = "assign"]
                    /\ tbuf' = [tbuf EXCEPT ![t] = tidx[t]]
                    /\ tidx' = [tidx EXCEPT ![t] = 1]
               ELSE IF tidx[t] < PoolSize
               THEN /\ tidx' = [tidx EXCEPT ![t] = tidx[t] + 1]
                    /\ UNCHANGED <<pc, tbuf>>
               ELSE /\ pc' = [pc EXCEPT ![t] = "wait_enter"]
                    /\ tidx' = [tidx EXCEPT ![t] = 1]
                    /\ tbuf' = tbuf
            /\ UNCHANGED <<poolVars, disk, logVars, targ, timedOut, held, result,
                           calls, lastOp, pre,
                   fileVars, extVars>>

\* choose_unpinned_buffer: lock num_available and start wait_timeout, which
\* releases the mutex while the thread waits
EnterWait(t) ==
    /\ pc[t] = "wait_enter"
    /\ naLock = 0
    /\ IF naPoisoned THEN Panic(t, {})
       ELSE /\ pc' = [pc EXCEPT ![t] = "waiting"]
            /\ timedOut' = [timedOut EXCEPT ![t] = FALSE]
            /\ UNCHANGED <<poolVars, disk, logVars, targ, tbuf, tidx, held, result,
                           calls, lastOp, pre,
                   fileVars, extVars>>

\* deadlock_waiting_duration passes while the thread waits
Timeout(t) ==
    /\ pc[t] = "waiting"
    /\ pc' = [pc EXCEPT ![t] = "woken"]
    /\ timedOut' = [timedOut EXCEPT ![t] = TRUE]
    /\ UNCHANGED <<poolVars, disk, logVars, targ, tbuf, tidx, held, result,
                   calls, lastOp, pre,
                   fileVars, extVars>>

\* Condvar::wait_timeout may wake up without a notification
SpuriousWake(t) ==
    /\ pc[t] = "waiting"
    /\ pc' = [pc EXCEPT ![t] = "woken"]
    /\ UNCHANGED <<poolVars, disk, logVars, targ, tbuf, tidx, timedOut, held,
                   result, calls, lastOp, pre,
                   fileVars, extVars>>

\* a wait loop that never gives up: the elapsed time is not looked at
WokenNoExpiry(t) ==
    /\ pc[t] = "woken"
    /\ naLock = 0
    /\ pc' = [pc EXCEPT ![t] = "choose"]
    /\ tidx' = [tidx EXCEPT ![t] = 1]
    /\ timedOut' = [timedOut EXCEPT ![t] = FALSE]
    /\ UNCHANGED <<poolVars, disk, logVars, targ, tbuf, held, result, calls,
                   lastOp, pre, fileVars, extVars>>

\* wait_timeout returns with the mutex re-acquired; the guard is dropped at
\* the end of the loop body and the loop condition start_time.elapsed() <=
\* deadlock_waiting_duration is evaluated: false after a timeout, either
\* value after an earlier wake-up
Woken(t) ==
    /\ pc[t] = "woken"
    /\ naLock = 0
    /\ \E expired \in (IF timedOut[t] THEN {TRUE} ELSE BOOLEAN) :
         IF naPoisoned \/ expired
         THEN /\ pc' = [pc EXCEPT ![t] = "idle"]
              /\ result' = [result EXCEPT ![t] = "DeadLockTimeout"]
              /\ targ' = [targ EXCEPT ![t] = NoBlock]
              /\ calls' = calls - 1
              /\ pre' = [pre EXCEPT ![t] = NoPre]
         ELSE /\ pc' = [pc EXCEPT ![t] = "choose"]
              /\ result' = result
              /\ targ' = targ
              /\ calls' = calls
              /\ pre' = pre
    /\ tidx' = [tidx EXCEPT ![t] = 1]
    /\ timedOut' = [timedOut EXCEPT ![t] = FALSE]
    /\ UNCHANGED <<poolVars, disk, logVars, tbuf, held, lastOp, fileVars, extVars>>

\* try_to_pin: buffer.assign_to_block(block_id) on the chosen buffer
AssignStep(t) ==
    /\ pc[t] = "assign"
    /\ IF bufPoisoned[tbuf[t]] THEN Panic(t, {})
       ELSE LET a == AssignToBlock(bufs[tbuf[t]], targ[t], disk, head, logfile)
            IN /\ bufs' = [bufs EXCEPT ![tbuf[t]] = a.buf]
               /\ disk' = a.disk
               /\ head' = a.head
               /\ logfile' = a.file
               /\ pc' = [pc EXCEPT ![t] = "check_pinned"]
               /\ lastOp' = IF bufs[tbuf[t]].transaction # NoTx
                             THEN [NoOp EXCEPT !.op = "evict", !.buf = tbuf[t],
                                               !.block = bufs[tbuf[t]].block]
                             ELSE lastOp
               /\ UNCHANGED <<num_available, naLock, naPoisoned, bufPoisoned,
                              overflow_checks, targ, tbuf, tidx, timedOut, held,
                              result, calls, hist, returned, pre, fileVars, extVars>>

\* try_to_pin that takes every buffer for unpinned
CheckPinnedAlwaysDec(t) ==
    /\ pc[t] = "check_pinned"
    /\ IF bufPoisoned[tbuf[t]] THEN Panic(t, {})
       ELSE /\ pc' = [pc EXCEPT ![t] = "dec_na"]
            /\ UNCHANGED <<poolVars, disk, logVars, targ, tbuf, tidx, timedOut,
                           held, result, calls, lastOp, pre, fileVars, extVars>>

\* try_to_pin: if buffer.is_not_pinned()
CheckPinned(t) ==
    /\ pc[t] = "check_pinned"
    /\ IF bufPoisoned[tbuf[t]] THEN Panic(t, {})
       ELSE /\ pc' = [pc EXCEPT ![t] =
                        IF IsPinned(bufs[tbuf[t]]) THEN "inc_pins" ELSE "dec_na"]
            /\ UNCHANGED <<poolVars, disk, logVars, targ, tbuf, tidx, timedOut,
                           held, result, calls, lastOp, pre,
                   fileVars, extVars>>

\* try_to_pin: *num_available -= 1 under the num_available lock
DecNa(t) ==
    /\ pc[t] = "dec_na"
    /\ naLock = 0
    /\ IF naPoisoned THEN Panic(t, {})
       ELSE IF num_available = 0 /\ overflow_checks
       THEN /\ naLock' = 0
            /\ naPoisoned' = TRUE
            /\ pc' = [pc EXCEPT ![t] = "panicked"]
            /\ UNCHANGED <<bufs, num_available, bufPoisoned, overflow_checks, disk,
                           logVars, targ, tbuf, tidx, timedOut, held, result, calls,
                           lastOp, pre,
                   fileVars, extVars>>
       ELSE /\ num_available' = UsizeSub(num_available, 1)
            /\ pc' = [pc EXCEPT ![t] = "inc_pins"]
            /\ UNCHANGED <<bufs, naLock, naPoisoned, bufPoisoned, overflow_checks,
                           disk, logVars, targ, tbuf, tidx, timedOut, held, result,
                           calls, lastOp, pre,
                   fileVars, extVars>>

\* try_to_pin: buffer.increment_pins_count(); Ok(buffer)
IncPins(t) ==
    /\ pc[t] = "inc_pins"
    /\ IF bufPoisoned[tbuf[t]] THEN Panic(t, {})
       ELSE /\ bufs' = [bufs EXCEPT ![tbuf[t]].pins_count = UsizeAdd(@, 1)]
            /\ held' = [held EXCEPT ![t][tbuf[t]] = @ + 1]
            /\ result' = [result EXCEPT ![t] = "Ok"]
            /\ pc' = [pc EXCEPT ![t] = "idle"]
            /\ targ' = [targ EXCEPT ![t] = NoBlock]
            /\ tbuf' = [tbuf EXCEPT ![t] = 1]
            /\ pre' = [pre EXCEPT ![t] = NoPre]
            /\ UNCHANGED <<num_available, naLock, naPoisoned, bufPoisoned,
                           overflow_checks, disk, logVars, tidx, timedOut, calls,
                           lastOp, fileVars, extVars>>

\* unpin(buffer) for a handle i the thread got from pin: lock num_available
UnpinLock(t, i) ==
    /\ pc[t] = "idle"
    /\ held[t][i] > 0
    /\ naLock = 0
    /\ IF naPoisoned THEN Panic(t, {})
       ELSE /\ naLock' = t
            /\ pc' = [pc EXCEPT ![t] = "unpin_dec"]
            /\ tbuf' = [tbuf EXCEPT ![t] = i]
            /\ held' = [held EXCEPT ![t][i] = @ - 1]
            /\ lastOp' = NoOp
            /\ UNCHANGED <<bufs, num_available, naPoisoned, bufPoisoned,
                           overflow_checks, disk, logVars, targ, tidx, timedOut,
                           result, calls, pre, fileVars, extVars>>

\* unpin: buffer.decrement_pins_count()
UnpinDec(t) ==
    /\ pc[t] = "unpin_dec"
    /\ IF bufPoisoned[tbuf[t]] THEN Panic(t, {})
       ELSE IF bufs[tbuf[t]].pins_count = 0 /\ overflow_checks
       THEN Panic(t, {tbuf[t]})
       ELSE /\ bufs' = [bufs EXCEPT ![tbuf[t]].pins_count = UsizeSub(@, 1)]
            /\ pc' = [pc EXCEPT ![t] = "unpin_inc"]
            /\ UNCHANGED <<num_available, naLock, naPoisoned, bufPoisoned,
                           overflow_checks, disk, logVars, targ, tbuf, tidx,
                           timedOut, held, result, calls, lastOp, pre,
                   fileVars, extVars>>

\* the threads notify_one may wake: one of the waiting threads, if any
NotifyOne(p) ==
    LET waiting == {w \in Threads : p[w] = "waiting"}
    IN IF waiting = {} THEN {p}
       ELSE {[p EXCEPT ![w] = "woken"] : w \in waiting}

\* unpin: *num_available += 1; buffer_available.notify_one(); the lock is released
UnpinInc(t) ==
    /\ pc[t] = "unpin_inc"
    /\ num_available' = UsizeAdd(num_available, 1)
    /\ naLock' = 0
    /\ pc' \in NotifyOne([pc EXCEPT ![t] = "idle"])
    /\ tbuf' = [tbuf EXCEPT ![t] = 1]
    /\ UNCHANGED <<bufs, naPoisoned, bufPoisoned, overflow_checks, disk, logVars,
                   targ, tidx, timedOut, held, result, calls, lastOp, pre,
                   fileVars, extVars>>

\* the steps a thread takes inside a call, once the call has started
ThreadStep(t) ==
    \/ FindStep(t)
    \/ ChooseStep(t)
    \/ EnterWait(t)
    \/ Woken(t)
    \/ AssignStep(t)
    \/ CheckPinned(t)
    \/ DecNa(t)
    \/ IncPins(t)
    \/ UnpinDec(t)
    \/ UnpinInc(t)

Next ==
    \E t \in Threads :
        \/ \E b \in Blocks : calls < MaxCalls /\ StartPin(t, b)
        \/ \E i \in Pool : UnpinLock(t, i)
        \/ ThreadStep(t)
        \/ Timeout(t)
        \/ SpuriousWake(t)

Spec == Init /\ [][Next]_vars

----------------------------------------------------------------------------
(* LogManager::append and flush; each call runs under the head lock from its
   first statement to its return and is one step *)

Recs == {[i \in 1..n |-> v] : n \in 1..MaxRecLen, v \in 1..MaxByte}

LogManagerAppend(t, rec) ==
    /\ pc[t] = "idle"
    /\ Len(hist) < MaxAppends
    /\ LET a == LogAppend(head, logfile, rec)
       IN /\ head' = a.head
          /\ logfile' = a.file
          /\ returned' = Append(returned, a.pos.latest)
    /\ hist' = Append(hist, rec)
    /\ lastOp' = NoOp
    /\ UNCHANGED <<poolVars, disk, threadVars, fileVars, extVars>>

LogManagerFlush(t, lsn) ==
    /\ pc[t] = "idle"
    /\ LET f == LogFlush(head, logfile, lsn)
       IN /\ head' = f.head
          /\ logfile' = f.file
    /\ lastOp' = [NoOp EXCEPT !.op = "flush", !.lsn = lsn]
    /\ UNCHANGED <<poolVars, disk, threadVars, hist, returned, fileVars, extVars>>

LogNext ==
    \E t \in Threads :
        \/ \E rec \in Recs : LogManagerAppend(t, rec)
        \/ \E lsn \in 0..MaxAppends : LogManagerFlush(t, lsn)

LogSpec == Init /\ [][LogNext]_vars

----------------------------------------------------------------------------
(* LogManager::append when a call of the file manager fails during the
   rotation; the error is returned with `?` and the head lock is released *)

\* the file manager calls of a rotating append that can return an IoError:
\* the write of _flush, FileManager::append and the write of
\* append_new_block (its seek fails, nothing is written)
AppendFaults == {"flush", "append", "write"}

\* the head and the file after an append whose rotation fails at fault
LogAppendFailed(h, file, fault) ==
    IF fault = "flush" THEN [head |-> h, file |-> file]
    ELSE LET f == LogFlushInner(h, file)
         IN IF fault = "append" THEN f
            ELSE [head |-> [f.head EXCEPT !.page = AppendNewBlock(f.file, f.head.page).page],
                  file |-> f.file]

\* an append that returns Err: no LogPosition is returned
LogManagerAppendError(t, rec, fault) ==
    /\ pc[t] = "idle"
    /\ Len(hist) < MaxAppends
    /\ NeedsNewBlock(get_i32(head.page, 0), Len(rec))
    /\ LET a == LogAppendFailed(head, logfile, fault)
       IN /\ head' = a.head
          /\ logfile' = a.file
    /\ lastOp' = [NoOp EXCEPT !.op = "append_error"]
    /\ UNCHANGED <<poolVars, disk, threadVars, hist, returned, fileVars, extVars>>

LogFaultNext ==
    \/ LogNext
    \/ \E t \in Threads : \E rec \in Recs : \E fault \in AppendFaults :
          LogManagerAppendError(t, rec, fault)

LogFaultSpec == Init /\ [][LogFaultNext]_vars

----------------------------------------------------------------------------
(* LogManager::append with records that do not fit next to the boundary of
   a fresh block *)

\* the shortest record for which record_size + 4 + 4 exceeds the block size:
\* appended to a fresh block it starts below offset 4
LongRecLen == BlockSize - 7

LongRecs == Recs \cup {[i \in 1..LongRecLen |-> v] : v \in 1..MaxByte}

LongLogNext ==
    \E t \in Threads : \E rec \in LongRecs : LogManagerAppend(t, rec)

LongLogSpec == Init /\ [][LongLogNext]_vars

----------------------------------------------------------------------------
(* LogManager::iter and LogManagerIter::next of one reading caller, while the
   callers append and flush; iter() runs under the head lock, next() takes no
   lock of the log manager *)

\* the fields of the LogManagerIter held in log_iter
IterOf(li) ==
    [block |-> li.block, page |-> li.page, pos_current |-> li.pos_current,
     boundary |-> li.boundary]

\* iter(): the iterator is built from the head block as read from disk; the
\* records the log file holds for it at this moment are kept for comparison
LogManagerIter(t) ==
    /\ pc[t] = "idle"
    /\ log_iter.st = "none"
    /\ LET it == LogIter(head, logfile)
       IN log_iter' = [st |-> "open", block |-> it.block, page |-> it.page,
                       pos_current |-> it.pos_current, boundary |-> it.boundary,
                       yielded |-> << >>,
                       on_disk |-> IterDrain(it, logfile, MaxAppends + 3)]
    /\ lastOp' = NoOp
    /\ UNCHANGED <<poolVars, disk, logVars, threadVars, fileVars, clones, codec,
                   byte_buffer, page_call, fm_call, lateVars>>

\* one call of next(): None, a record, or a panic in Page::get_bytes
LogManagerIterNext(t) ==
    /\ pc[t] = "idle"
    /\ log_iter.st = "open"
    /\ IF ~IterHasNext(IterOf(log_iter))
       THEN log_iter' = [log_iter EXCEPT !.st = "done"]
       ELSE LET nx == IterNext(IterOf(log_iter), logfile)
            IN IF nx.rec = PanicBytes
               THEN log_iter' = [log_iter EXCEPT !.st = "panicked"]
               ELSE log_iter' = [log_iter EXCEPT
                                   !.block = nx.it.block,
                                   !.page = nx.it.page,
                                   !.pos_current = nx.it.pos_current,
                                   !.boundary = nx.it.boundary,
                                   !.yielded = Append(@, nx.rec)]
    /\ lastOp' = NoOp
    /\ UNCHANGED <<poolVars, disk, logVars, threadVars, fileVars, clones, codec,
                   byte_buffer, page_call, fm_call, lateVars>>

IterSpecNext ==
    \/ LogNext
    \/ LogManagerIter(1)
    \/ LogManagerIterNext(1)

IterSpec == Init /\ [][IterSpecNext]_vars

\* the same callers when records that do not fit a block are appended as well
LongIterNext ==
    \/ LongLogNext
    \/ LogManagerIter(1)
    \/ LogManagerIterNext(1)

LongIterSpec == Init /\ [][LongIterNext]_vars

----------------------------------------------------------------------------
(* Buffer operations of a caller that holds a handle from pin *)

ModOffset == BlockSize - 4

\* modify_page that also writes the page to the block of the buffer
ModifyWriteThrough(t, i, v, tx, lsn) ==
    /\ pc[t] = "idle"
    /\ held[t][i] > 0
    /\ bufs' = [bufs EXCEPT ![i] = ModifyPage(@, ModOffset, v, tx, lsn)]
    /\ disk' = FmWrite(disk, bufs[i].block, bufs'[i].page)
    /\ lastOp' = NoOp
    /\ UNCHANGED <<num_available, naLock, naPoisoned, bufPoisoned, overflow_checks,
                   logVars, threadVars, fileVars, extVars>>

\* buffer.modify_page(|page| page.set(ModOffset, &Integer::from(v)), tx, lsn)
Modify(t, i, v, tx, lsn) ==
    /\ pc[t] = "idle"
    /\ held[t][i] > 0
    /\ bufs' = [bufs EXCEPT ![i] = ModifyPage(@, ModOffset, v, tx, lsn)]
    /\ lastOp' = NoOp
    /\ UNCHANGED <<num_available, naLock, naPoisoned, bufPoisoned, overflow_checks,
                   disk, logVars, threadVars, fileVars, extVars>>

\* buffer.flush()
BufferFlush(t, i) ==
    /\ pc[t] = "idle"
    /\ held[t][i] > 0
    /\ LET f == BufFlushInner(bufs[i], disk, head, logfile)
       IN /\ bufs' = [bufs EXCEPT ![i] = f.buf]
          /\ disk' = f.disk
          /\ head' = f.head
          /\ logfile' = f.file
    /\ lastOp' = NoOp
    /\ UNCHANGED <<num_available, naLock, naPoisoned, bufPoisoned, overflow_checks,
                   threadVars, hist, returned, fileVars, extVars>>

\* the pool, the data file and the log after flush_all has visited the
\* buffers i..PoolSize in pool order
RECURSIVE FlushAllFrom(_, _, _)
FlushAllFrom(i, tx, st) ==
    IF i > PoolSize THEN st
    ELSE IF st.bufs[i].transaction = tx
    THEN LET f == BufFlushInner(st.bufs[i], st.disk, st.head, st.file)
         IN FlushAllFrom(i + 1, tx,
                [bufs |-> [st.bufs EXCEPT ![i] = f.buf], disk |-> f.disk,
                 head |-> f.head, file |-> f.file])
    ELSE FlushAllFrom(i + 1, tx, st)

\* flush_all that flushes the buffers of every transaction
FlushAllAnyTx(t, tx) ==
    /\ pc[t] = "idle"
    /\ LET all == [i \in Pool |-> IF bufs[i].transaction # NoTx
                                  THEN [bufs[i] EXCEPT !.transaction = tx]
                                  ELSE bufs[i]]
           f == FlushAllFrom(1, tx, [bufs |-> all, disk |-> disk,
                                     head |-> head, file |-> logfile])
       IN /\ bufs' = f.bufs
          /\ disk' = f.disk
          /\ head' = f.head
          /\ logfile' = f.file
    /\ lastOp' = [NoOp EXCEPT !.op = "flush_all", !.tx = tx]
    /\ UNCHANGED <<num_available, naLock, naPoisoned, bufPoisoned, overflow_checks,
                   threadVars, hist, returned, fileVars, extVars>>

\* buffer_manager.flush_all(tx) by a caller that runs alone
FlushAll(t, tx) ==
    /\ pc[t] = "idle"
    /\ LET f == FlushAllFrom(1, tx, [bufs |-> bufs, disk |-> disk,
                                     head |-> head, file |-> logfile])
       IN /\ bufs' = f.bufs
          /\ disk' = f.disk
          /\ head' = f.head
          /\ logfile' = f.file
    /\ lastOp' = [NoOp EXCEPT !.op = "flush_all", !.tx = tx]
    /\ UNCHANGED <<num_available, naLock, naPoisoned, bufPoisoned, overflow_checks,
                   threadVars, hist, returned, fileVars, extVars>>

\* one caller of pin and unpin: every call returns before the next one starts
PinSeqNext ==
    \/ \E b \in Blocks : (calls < MaxCalls \/ Exhausted(b)) /\ StartPin(1, b)
    \/ \E i \in Pool : UnpinLock(1, i)
    \/ ThreadStep(1)
    \/ Timeout(1)
    \/ SpuriousWake(1)

PinSeqSpec == Init /\ [][PinSeqNext]_vars

\* the caller keeps running and time passes while it waits
PinSeqFairSpec == PinSeqSpec /\ WF_vars(ThreadStep(1)) /\ SF_vars(Timeout(1))

\* the log records the single caller appends
SeqRecs == {[i \in 1..MaxRecLen |-> 1]}

\* one caller of the buffer pool, its buffers and the log manager
SeqNext ==
    \/ \E b \in Blocks : (calls < MaxSeqCalls \/ Exhausted(b)) /\ StartPin(1, b)
    \/ \E i \in Pool : UnpinLock(1, i)
    \/ ThreadStep(1)
    \/ Timeout(1)
    \/ SpuriousWake(1)
    \/ \E i \in Pool, v \in 1..MaxVal, tx \in 1..MaxTx, lsn \in {NoLsn} \cup 1..head.latest :
          Modify(1, i, v, tx, lsn)
    \/ \E i \in Pool : BufferFlush(1, i)
    \/ \E tx \in 1..MaxTx : FlushAll(1, tx)
    \/ \E rec \in SeqRecs : Len(hist) < MaxSeqAppends /\ LogManagerAppend(1, rec)
    \/ \E lsn \in 0..MaxSeqAppends : LogManagerFlush(1, lsn)

SeqSpec == Init /\ [][SeqNext]_vars

\* one caller that pins, modifies and unpins buffers; nothing is logged, so
\* every modification carries no log sequence number
EvictNext ==
    \/ \E b \in Blocks : (calls < MaxSeqCalls \/ Exhausted(b)) /\ StartPin(1, b)
    \/ \E i \in Pool : UnpinLock(1, i)
    \/ ThreadStep(1)
    \/ Timeout(1)
    \/ SpuriousWake(1)
    \/ \E i \in Pool, v \in 1..MaxVal, tx \in 1..MaxTx : Modify(1, i, v, tx, NoLsn)

EvictSpec == Init /\ [][EvictNext]_vars

\* one caller that pins, modifies, flushes and unpins buffers on behalf of
\* several transactions; every modification stores 1 and nothing is logged;
\* the blocks above MaxBufBlock are asked for only when the pool is exhausted
BufNext ==
    \/ \E b \in Blocks :
          /\ (b <= MaxBufBlock /\ calls < MaxSeqCalls) \/ Exhausted(b)
          /\ StartPin(1, b)
    \/ \E i \in Pool : UnpinLock(1, i)
    \/ ThreadStep(1)
    \/ Timeout(1)
    \/ SpuriousWake(1)
    \/ \E i \in Pool, tx \in 1..MaxFlushTx : Modify(1, i, 1, tx, NoLsn)
    \/ \E i \in Pool : BufferFlush(1, i)
    \/ \E tx \in 1..MaxFlushTx : FlushAll(1, tx)

BufSpec == Init /\ [][BufNext]_vars

----------------------------------------------------------------------------
(* The public operations of a Buffer made by Buffer::new, called by one
   caller that owns the buffers; a call on a poisoned buffer panics at
   data.lock().unwrap() and changes nothing *)

\* Buffer::_flush panics at expect("Buffer: Block not set when trying to
\* flush") when the buffer is modified and bound to no block
FlushPanics(d) == d.transaction # NoTx /\ d.block = NoBlock

\* buffer.modify_page(|page| page.set(ModOffset, &Integer::from(1)), tx, None)
BufferModifyPage(i, tx) ==
    /\ ~bufPoisoned[i]
    /\ bufs' = [bufs EXCEPT ![i] = ModifyPage(@, ModOffset, 1, tx, NoLsn)]
    /\ lastOp' = [NoOp EXCEPT !.op = "modify_page", !.buf = i, !.tx = tx]
    /\ UNCHANGED <<num_available, naLock, naPoisoned, bufPoisoned, overflow_checks,
                   disk, logVars, threadVars, fileVars, extVars>>

\* buffer.assign_to_block(b); the panic of _flush unwinds through the guard
\* of the data lock and poisons it
BufferAssignToBlock(i, b) ==
    /\ ~bufPoisoned[i]
    /\ IF FlushPanics(bufs[i])
       THEN /\ bufPoisoned' = [bufPoisoned EXCEPT ![i] = TRUE]
            /\ lastOp' = [NoOp EXCEPT !.op = "panic", !.buf = i]
            /\ UNCHANGED <<bufs, disk, logVars>>
       ELSE /\ LET a == AssignToBlock(bufs[i], b, disk, head, logfile)
               IN /\ bufs' = [bufs EXCEPT ![i] = a.buf]
                  /\ disk' = a.disk
                  /\ head' = a.head
                  /\ logfile' = a.file
            /\ lastOp' = [NoOp EXCEPT !.op = "assign_to_block", !.buf = i, !.block = b]
            /\ UNCHANGED <<bufPoisoned, hist, returned>>
    /\ UNCHANGED <<num_available, naLock, naPoisoned, overflow_checks, threadVars,
                   fileVars, extVars>>

\* buffer.flush()
BufferFlushPublic(i) ==
    /\ ~bufPoisoned[i]
    /\ IF FlushPanics(bufs[i])
       THEN /\ bufPoisoned' = [bufPoisoned EXCEPT ![i] = TRUE]
            /\ lastOp' = [NoOp EXCEPT !.op = "panic", !.buf = i]
            /\ UNCHANGED <<bufs, disk, logVars>>
       ELSE /\ LET f == BufFlushInner(bufs[i], disk, head, logfile)
               IN /\ bufs' = [bufs EXCEPT ![i] = f.buf]
                  /\ disk' = f.disk
                  /\ head' = f.head
                  /\ logfile' = f.file
            /\ lastOp' = [NoOp EXCEPT !.op = "flush", !.buf = i]
            /\ UNCHANGED <<bufPoisoned, hist, returned>>
    /\ UNCHANGED <<num_available, naLock, naPoisoned, overflow_checks, threadVars,
                   fileVars, extVars>>

BufferApiNext ==
    \E i \in Pool :
        \/ \E tx \in 1..MaxFlushTx : BufferModifyPage(i, tx)
        \/ \E b \in 0..MaxBufBlock : BufferAssignToBlock(i, b)
        \/ BufferFlushPublic(i)

BufferApiSpec == Init /\ [][BufferApiNext]_vars

----------------------------------------------------------------------------
(* Clones of a Buffer: Buffer derives Clone over data: Arc<Mutex<BufferData>>,
   so a handle is a pointer to a BufferData, and the Page inside it is an
   Arc<Mutex<Box<[u8]>>> of its own *)

MaxClones == 2
MaxPins == 2

\* the handles that exist
Handles == 1..Len(clones)

\* a clone that points to a BufferData other than the one of its origin
BufferCloneOwnData(h) == [data |-> (h.data % PoolSize) + 1, of |-> h.of]

\* Buffer::clone: Arc::clone of data
BufferClone(h) == [data |-> h.data, of |-> h.of]

\* let c = buffer.clone() for the handle h
CloneHandle(h) ==
    /\ Len(clones) < PoolSize + MaxClones
    /\ clones' = Append(clones, BufferClone(clones[h]))
    /\ lastOp' = [NoOp EXCEPT !.op = "clone", !.buf = clones[h].data]
    /\ UNCHANGED <<poolVars, disk, logVars, threadVars, fileVars, codec,
                   byte_buffer, page_call, fm_call, moreVars>>

\* buffer.increment_pins_count()
BufferIncrementPins(i) ==
    /\ ~bufPoisoned[i]
    /\ bufs[i].pins_count < MaxPins
    /\ bufs' = [bufs EXCEPT ![i].pins_count = UsizeAdd(@, 1)]
    /\ lastOp' = [NoOp EXCEPT !.op = "increment_pins_count", !.buf = i]
    /\ UNCHANGED <<num_available, naLock, naPoisoned, bufPoisoned, overflow_checks,
                   disk, logVars, threadVars, fileVars, extVars>>

\* buffer.decrement_pins_count(): at pin count 0 the subtraction panics under
\* the data lock or wraps, as the build checks overflow or not; a wrapped
\* count is not decremented further
BufferDecrementPins(i) ==
    /\ ~bufPoisoned[i]
    /\ bufs[i].pins_count <= MaxPins
    /\ IF bufs[i].pins_count = 0 /\ overflow_checks
       THEN /\ bufPoisoned' = [bufPoisoned EXCEPT ![i] = TRUE]
            /\ lastOp' = [NoOp EXCEPT !.op = "panic", !.buf = i]
            /\ bufs' = bufs
       ELSE /\ bufs' = [bufs EXCEPT ![i].pins_count = UsizeSub(@, 1)]
            /\ lastOp' = [NoOp EXCEPT !.op = "decrement_pins_count", !.buf = i]
            /\ bufPoisoned' = bufPoisoned
    /\ UNCHANGED <<num_available, naLock, naPoisoned, overflow_checks,
                   disk, logVars, threadVars, fileVars, extVars>>

\* one caller that clones the first buffer of the pool and calls the public
\* operations through any of its handles
CloneNext ==
    \E h \in {g \in Handles : clones[g].of = 1} :
        \/ CloneHandle(h)
        \/ BufferModifyPage(clones[h].data, 1)
        \/ \E b \in 0..MaxBufBlock : BufferAssignToBlock(clones[h].data, b)
        \/ BufferFlushPublic(clones[h].data)
        \/ BufferIncrementPins(clones[h].data)
        \/ BufferDecrementPins(clones[h].data)

CloneSpec == Init /\ [][CloneNext]_vars

----------------------------------------------------------------------------
(* Page::set_bytes and get_bytes on one Page shared by its clones: each call
   takes the byte_buffer lock twice, once for the Varcount length prefix
   (Page::set / Page::get) and once for the payload. Thread 1 is the writer,
   the other threads read; all calls use offset 0 *)

\* set_bytes, line 47: self.set(offset, &length) under the lock
SetBytesPrefix(page, off, value) == SetRange(page, off, VarcountSer(Len(value)))

\* set_bytes, lines 48-49: copy the value behind the prefix under the lock
SetBytesPayload(page, off, value) ==
    SetRange(page, off + VarcountLen(Len(value)), value)

\* get_bytes, line 39: self.get::<Varcount>(offset) under the lock
GetBytesLength(page, off) == VarcountDe(page, off)

\* get_bytes, lines 40-41: copy length bytes behind the prefix under the lock
GetBytesPayload(page, off, length) == GetRange(page, off + VarcountLen(length), length)

Writing == page_call[1].pc \in {"set_prefix", "set_payload"}

Reading(t) == page_call[t].pc \in {"get_prefix", "get_payload"}

\* page.set_bytes(0, value) is called; the readers under way may now see
\* the old or the new value
StartSetBytes(t, value) ==
    /\ t = 1
    /\ page_call[t].pc = "idle"
    /\ page_call' = [u \in Threads |->
                       IF u = t
                       THEN [page_call[t] EXCEPT !.pc = "set_prefix",
                                                 !.op = "set_bytes",
                                                 !.old = page_call[t].value,
                                                 !.value = value]
                       ELSE IF Reading(u)
                       THEN [page_call[u] EXCEPT !.allowed = @ \cup {value}]
                       ELSE page_call[u]]
    /\ UNCHANGED <<poolVars, disk, logVars, threadVars, lastOp, fileVars, clones,
                   codec, byte_buffer, fm_call, moreVars>>

SetPrefix(t) ==
    /\ page_call[t].pc = "set_prefix"
    /\ byte_buffer' = SetBytesPrefix(byte_buffer, 0, page_call[t].value)
    /\ page_call' = [page_call EXCEPT ![t].pc = "set_payload"]
    /\ UNCHANGED <<poolVars, disk, logVars, threadVars, lastOp, fileVars, clones,
                   codec, fm_call, moreVars>>

SetPayload(t) ==
    /\ page_call[t].pc = "set_payload"
    /\ byte_buffer' = SetBytesPayload(byte_buffer, 0, page_call[t].value)
    /\ page_call' = [page_call EXCEPT ![t].pc = "idle"]
    /\ UNCHANGED <<poolVars, disk, logVars, threadVars, lastOp, fileVars, clones,
                   codec, fm_call, moreVars>>

\* page.get_bytes(0) is called
StartGetBytes(t) ==
    /\ t # 1
    /\ page_call[t].pc = "idle"
    /\ page_call' = [page_call EXCEPT
                       ![t].pc = "get_prefix",
                       ![t].op = "get_bytes",
                       ![t].allowed = IF Writing
                                      THEN {page_call[1].old, page_call[1].value}
                                      ELSE {page_call[1].value}]
    /\ UNCHANGED <<poolVars, disk, logVars, threadVars, lastOp, fileVars, clones,
                   codec, byte_buffer, fm_call, moreVars>>

GetPrefix(t) ==
    /\ page_call[t].pc = "get_prefix"
    /\ page_call' = [page_call EXCEPT ![t].pc = "get_payload",
                                      ![t].length = GetBytesLength(byte_buffer, 0)]
    /\ UNCHANGED <<poolVars, disk, logVars, threadVars, lastOp, fileVars, clones,
                   codec, byte_buffer, fm_call, moreVars>>

GetPayload(t) ==
    /\ page_call[t].pc = "get_payload"
    /\ page_call' = [page_call EXCEPT
                       ![t].pc = "idle",
                       ![t].value = GetBytesPayload(byte_buffer, 0, page_call[t].length)]
    /\ UNCHANGED <<poolVars, disk, logVars, threadVars, lastOp, fileVars, clones,
                   codec, byte_buffer, fm_call, moreVars>>

PageNext ==
    \E t \in Threads :
        \/ \E value \in Recs : StartSetBytes(t, value)
        \/ SetPrefix(t)
        \/ SetPayload(t)
        \/ StartGetBytes(t)
        \/ GetPrefix(t)
        \/ GetPayload(t)

PageSpec == Init /\ [][PageNext]_vars

----------------------------------------------------------------------------
(* FileManager::read and write through the handle cache: get_file probes the
   cache under the read lock, then under the write lock; the handle's mutex
   is taken; seek and transfer run while it is held *)

otherVars == <<poolVars, disk, logVars, threadVars, lastOp, extVars>>

Cache ==
    [internal_hash_map |-> internal_hash_map,
     open_resources |-> open_resources,
     access_counter |-> access_counter]

\* an Arc<Mutex<File>> whose last clone is gone: the file is closed
ClosedHandle == [file |-> 0, owner |-> 0]

\* the handles after those are dropped that neither the cache map m nor a
\* caller (fh) holds a clone of
DropUnused(hs, m, fh) ==
    [i \in DOMAIN hs |->
        IF (\E k \in FileNames : m[k].resource = i) \/ (\E u \in Threads : fh[u] = i)
        THEN hs[i] ELSE ClosedHandle]

\* a page whose first byte is v
FilePage(v) == SetRange(ZeroPage, 0, << v >>)

\* the calls in progress
InFlight == {u \in Threads : fpc[u] # "idle"}

\* read(block, page) or write(block, page) is called
StartFileOp(t, kind, f, b, p) ==
    /\ fpc[t] = "idle"
    /\ fpc' = [fpc EXCEPT ![t] = "get_file"]
    /\ fop' = [fop EXCEPT ![t] = [kind |-> kind, file |-> f, block |-> b, page |-> p]]
    /\ lastOp' = NoOp
    /\ UNCHANGED <<cacheVars, files, fhandle, written, poolVars, disk, logVars,
                   threadVars, extVars>>

\* get_or_create, lines 82-90
GetFileRead(t) ==
    /\ fpc[t] = "get_file"
    /\ LET h == ProbeRead(Cache, fop[t].file)
       IN /\ fhandle' = [fhandle EXCEPT ![t] = h]
          /\ fpc' = [fpc EXCEPT ![t] = IF h # NoHandle THEN "lock" ELSE "get_file_write"]
    /\ UNCHANGED <<cacheVars, files, fop, written, otherVars>>

\* get_or_create, lines 91-122; OpenOptions::open succeeds or fails, and a
\* failure is returned to the caller of read / write as an IoError; lastOp
\* tells whether the last factory call failed
GetFileWrite(t) ==
    /\ fpc[t] = "get_file_write"
    /\ \E made \in BOOLEAN :
       \E victim \in (IF OpenKeys(internal_hash_map) = {} THEN {fop[t].file}
                      ELSE MinFreshKeys(internal_hash_map)) :
         LET r == ProbeWrite(Cache, fop[t].file,
                             IF made THEN Len(handles) + 1 ELSE NoHandle, victim)
         IN /\ internal_hash_map' = r.cache.internal_hash_map
            /\ open_resources' = r.cache.open_resources
            /\ access_counter' = r.cache.access_counter
            /\ fhandle' = [fhandle EXCEPT ![t] = r.handle]
            /\ handles' = DropUnused(IF r.created
                                     THEN Append(handles, [file |-> fop[t].file, owner |-> 0])
                                     ELSE handles,
                                     r.cache.internal_hash_map, fhandle')
            /\ files' = IF r.created THEN [files EXCEPT ![fop[t].file] = FmOpen(@)]
                        ELSE files
            /\ IF r.handle = NoHandle
               THEN /\ fpc' = [fpc EXCEPT ![t] = "idle"]
                    /\ fop' = [fop EXCEPT ![t] = NoFileOp]
                    /\ lastOp' = [NoOp EXCEPT !.op = "open_failed"]
               ELSE /\ fpc' = [fpc EXCEPT ![t] = "lock"]
                    /\ fop' = fop
                    /\ lastOp' = NoOp
    /\ UNCHANGED <<written, poolVars, disk, logVars, threadVars, extVars>>

\* file_binding.lock().unwrap()
LockFile(t) ==
    /\ fpc[t] = "lock"
    /\ handles[fhandle[t]].owner = 0
    /\ handles' = [handles EXCEPT ![fhandle[t]].owner = t]
    /\ fpc' = [fpc EXCEPT ![t] = "io"]
    /\ UNCHANGED <<internal_hash_map, open_resources, access_counter, files, fop,
                   fhandle, written, otherVars>>

\* the page a read of block b of file f hands to its caller
ReadResult(f, b) == FmRead(files[f], b)

\* seek and read / write_all on the locked handle; the guard is dropped on
\* return. A read hands ReadResult to its caller and changes nothing else
Transfer(t) ==
    /\ fpc[t] = "io"
    /\ LET o == fop[t]
       IN IF o.kind = "write"
          THEN /\ files' = [files EXCEPT ![o.file] = FmWrite(@, o.block, o.page)]
               /\ written' = [written EXCEPT ![o.file][o.block] = o.page]
          ELSE UNCHANGED <<files, written>>
    /\ fhandle' = [fhandle EXCEPT ![t] = NoHandle]
    /\ handles' = DropUnused([handles EXCEPT ![fhandle[t]].owner = 0],
                             internal_hash_map, fhandle')
    /\ fpc' = [fpc EXCEPT ![t] = "idle"]
    /\ fop' = [fop EXCEPT ![t] = NoFileOp]
    /\ UNCHANGED <<internal_hash_map, open_resources, access_counter, otherVars>>

FileStep(t) ==
    \/ GetFileRead(t)
    \/ GetFileWrite(t)
    \/ LockFile(t)
    \/ Transfer(t)

\* a call may start while the access counter can still grow by one per call
MayStart == access_counter + Cardinality(InFlight) < MaxFileOps

\* concurrent callers of read on block 0 of the files: every call goes
\* through get_or_create
CacheNext ==
    \E t \in Threads :
        \/ \E f \in FileNames : MayStart /\ StartFileOp(t, "read", f, 0, NoPage)
        \/ FileStep(t)

CacheSpec == Init /\ [][CacheNext]_vars

\* a call may start while the access counter is below its bound
MayStartShared == access_counter < MaxFileOps

\* concurrent callers of read and write on block 0 of the files
SharedFileNext ==
    \E t \in Threads :
        \/ \E f \in FileNames :
              MayStartShared /\ StartFileOp(t, "write", f, 0, FilePage(1))
        \/ \E f \in FileNames :
              MayStartShared /\ StartFileOp(t, "read", f, 0, NoPage)
        \/ FileStep(t)

SharedFileSpec == Init /\ [][SharedFileNext]_vars

\* the blocks written so far
WrittenBlocks == {fb \in FileNames \X FileBlocks : written[fb[1]][fb[2]] # NoPage}

\* a page that names the block it is written to
BlockPage(f, b) == SetRange(ZeroPage, 0, << f, b + 1 >>)

\* one caller of read and write on the blocks of the files
FileNext ==
    \/ \E f \in FileNames, b \in FileBlocks :
          /\ MayStart
          /\ <<f, b>> \in WrittenBlocks \/ Cardinality(WrittenBlocks) < MaxWrittenBlocks
          /\ StartFileOp(1, "write", f, b, BlockPage(f, b))
    \/ \E f \in FileNames, b \in FileBlocks :
          MayStart /\ StartFileOp(1, "read", f, b, NoPage)
    \/ FileStep(1)

FileSpec == Init /\ [][FileNext]_vars

----------------------------------------------------------------------------
(* FileManager::read, write, append and block_length of one caller, on
   block 0 of the files, when a system call may fail: each call is one step,
   get_file included *)

FmOps == {"read", "write", "append", "block_length"}

\* the system calls an operation makes on the handle it got from get_file
FmSyscalls(op) ==
    IF op = "read" THEN {"seek", "read"}
    ELSE IF op = "write" THEN {"seek", "write_all", "flush"}
    ELSE {"seek"}

\* the system call that is made to fail if the operation reaches it
Faults(op) == {"none", "open"} \cup FmSyscalls(op)

\* what the operation returns when its system call failed has failed: read
\* drops the result of file.read; block_length and append unwrap get_file
FmOutcome(op, failed) ==
    IF failed = "none" THEN "Ok"
    ELSE IF op = "read" THEN (IF failed = "read" THEN "Ok" ELSE "IoError")
    ELSE IF op = "write" THEN "IoError"
    ELSE IF failed = "open" THEN "panic" ELSE "IoError"

FaultCall(op, f, b, fault) ==
    /\ access_counter < MaxFileOps
    /\ LET miss == ProbeRead(Cache, f) = NoHandle
           failed == IF fault = "open" /\ ~miss THEN "none" ELSE fault
           page == FilePage(1)
       IN /\ \E victim \in (IF OpenKeys(internal_hash_map) = {} THEN {f}
                            ELSE MinFreshKeys(internal_hash_map)) :
               LET r == IF miss
                        THEN ProbeWrite(Cache, f,
                                        IF failed = "open" THEN NoHandle
                                        ELSE Len(handles) + 1, victim)
                        ELSE [cache |-> Cache, handle |-> ProbeRead(Cache, f),
                              created |-> FALSE]
               IN /\ internal_hash_map' = r.cache.internal_hash_map
                  /\ open_resources' = r.cache.open_resources
                  /\ access_counter' = r.cache.access_counter
                  /\ handles' = DropUnused(IF r.created
                                           THEN Append(handles, [file |-> f, owner |-> 0])
                                           ELSE handles,
                                           r.cache.internal_hash_map, fhandle)
          /\ \E wrote \in (IF failed = "write_all" THEN BOOLEAN ELSE {TRUE}) :
               LET writes == /\ op = "write"
                             /\ \/ failed \in {"none", "flush"}
                                \/ failed = "write_all" /\ wrote
               IN /\ files' = IF writes THEN [files EXCEPT ![f] = FmWrite(@, b, page)]
                              ELSE IF failed # "open" /\ miss
                              THEN [files EXCEPT ![f] = FmOpen(@)]
                              ELSE files
                  /\ written' = IF writes THEN [written EXCEPT ![f][b] = page]
                                ELSE written
          /\ fm_call' = [op |-> op, file |-> f, block |-> b, failed |-> failed,
                         outcome |-> FmOutcome(op, failed),
                         page |-> IF op = "read" /\ FmOutcome(op, failed) = "Ok"
                                  THEN (IF failed = "read" THEN ZeroPage
                                        ELSE FmRead(files[f], b))
                                  ELSE NoPage]
    /\ UNCHANGED <<poolVars, disk, logVars, threadVars, lastOp, fpc, fop, fhandle,
                   clones, codec, byte_buffer, page_call, moreVars>>

FaultNext ==
    \E op \in FmOps, f \in FileNames :
        \E fault \in Faults(op) : FaultCall(op, f, 0, fault)

FaultSpec == Init /\ [][FaultNext]_vars

----------------------------------------------------------------------------
(* FileManager::append, block_length and write of one caller on one file
   kept as its bytes: the length of the file need not be a multiple of the
   block size, since write stores a page of any length *)

MaxOsBlock == 2

\* the lengths of the pages the caller writes: a block, and half a block
PageLengths == {BlockSize, BlockSize \div 2}

\* _block_length: seek(End(0)) gives the length, divided by block_size
OsBlockLength(bytes) == Len(bytes) \div BlockSize

\* an append that extends the file by the new block
OsAppendGrow(f) ==
    LET blk == OsBlockLength(f.bytes)
    IN [f EXCEPT !.bytes = [i \in 1..((blk + 1) * BlockSize) |->
                               IF i <= Len(f.bytes) THEN f.bytes[i] ELSE 0],
                 !.pos = blk * BlockSize, !.op = "append",
                 !.block = 0, !.result = blk]

\* FileManager::append: _block_length, then seek to the start of that block
OsAppend(f) ==
    LET blk == OsBlockLength(f.bytes)
    IN [f EXCEPT !.pos = blk * BlockSize, !.op = "append", !.block = 0, !.result = blk]

\* FileManager::block_length: the cursor is left at the end of the file
OsBlockLengthCall(f) ==
    [f EXCEPT !.pos = Len(f.bytes), !.op = "block_length", !.block = 0,
              !.result = OsBlockLength(f.bytes)]

\* FileManager::write: seek to blk * block_size, write_all of the page; a gap
\* between the old end of the file and the block reads as zeros
OsWrite(f, blk, page) ==
    LET start == blk * BlockSize
        end == start + Len(page)
        n == IF end > Len(f.bytes) THEN end ELSE Len(f.bytes)
    IN [f EXCEPT !.bytes = [i \in 1..n |->
                               IF i > start /\ i <= end THEN page[i - start]
                               ELSE IF i <= Len(f.bytes) THEN f.bytes[i] ELSE 0],
                 !.pos = end, !.op = "write", !.block = blk, !.result = 0]

OsFileCall(f) ==
    /\ os_file' = f
    /\ UNCHANGED <<poolVars, disk, logVars, threadVars, lastOp, fileVars, clones,
                   codec, byte_buffer, page_call, fm_call, log_iter, lock_state>>

FileManagerAppend == OsFileCall(OsAppend(os_file))

FileManagerBlockLength == OsFileCall(OsBlockLengthCall(os_file))

FileManagerWrite(blk, n) == OsFileCall(OsWrite(os_file, blk, [i \in 1..n |-> 1]))

OsFileNext ==
    \/ FileManagerAppend
    \/ FileManagerBlockLength
    \/ \E blk \in 0..MaxOsBlock, n \in PageLengths : FileManagerWrite(blk, n)

OsFileSpec == Init /\ [][OsFileNext]_vars

----------------------------------------------------------------------------
(* The locks taken by concurrent callers of pin, unpin, flush_all,
   Buffer::flush, append, LogManager::flush, iter, next, read and write: a
   call is the sequence of its lock acquisitions and releases, the branches
   that depend on data are taken nondeterministically, and a guard is
   released where it goes out of scope.  The locks are num_available, the
   data of each buffer, the log head, the map of the handle cache (a RwLock
   taken for reading or for writing) and the handle of each file (0 is the
   log file, 1 the data file).  A Condvar wait releases num_available and
   takes it again when the wait ends, which the timeout guarantees. *)

MaxWaits == 1

LkNa == <<"na", 0>>
LkData(i) == <<"data", i>>
LkHead == <<"head", 0>>
LkMapRead == <<"map", 0>>
LkMapWrite == <<"map", 1>>
LkFile(f) == <<"file", f>>

Acq(l) == [k |-> "acq", l |-> l]
Rel(l) == [k |-> "rel", l |-> l]
Call(name, arg) == [k |-> "call", l |-> <<name, arg>>]

\* Buffer::block, is_pinned, modifying_transaction_number, increment_pins_count,
\* decrement_pins_count: the data lock for the length of one statement
ProbeLocks(i) == << Acq(LkData(i)), Rel(LkData(i)) >>

RECURSIVE ProbesTo(_)
\* Iterator::find over the pool: the buffers 1..k are probed in turn
ProbesTo(k) == IF k = 0 THEN << >> ELSE ProbesTo(k - 1) \o ProbeLocks(k)

\* SyncResourceCache::get_or_create: a hit under the read lock, or the read
\* lock released and the write lock taken for the second probe and the insert
GetOrCreateLocks ==
    {<< Acq(LkMapRead), Rel(LkMapRead) >>,
     << Acq(LkMapRead), Rel(LkMapRead), Acq(LkMapWrite), Rel(LkMapWrite) >>}

\* FileManager::read / write / append / block_length: get_file, then the lock
\* of the handle until the function returns
FileManagerLocks(f) ==
    {<< Call("get_or_create", 0), Acq(LkFile(f)), Rel(LkFile(f)) >>}

\* LogManager::flush: the head lock, and _flush (a write) when the lsn asks
LogFlushLocks ==
    {<< Acq(LkHead), Rel(LkHead) >>,
     << Acq(LkHead), Call("file", 0), Rel(LkHead) >>}

\* LogManager::append: the head lock; a rotation calls _flush (write) and
\* append_new_block (append, write) under it
LogAppendLocks ==
    {<< Acq(LkHead), Rel(LkHead) >>,
     << Acq(LkHead), Call("file", 0), Call("file", 0), Call("file", 0), Rel(LkHead) >>}

\* LogManager::iter: the head block is read under the head lock
LogIterLocks == {<< Acq(LkHead), Call("file", 0), Rel(LkHead) >>}

\* Buffer::_flush, called with the data lock held: nothing for a clean buffer,
\* else log_manager.flush when an lsn is set, then file_manager.write
BufferInnerFlushLocks ==
    {<< >>, << Call("file", 1) >>, << Call("log_flush", 0), Call("file", 1) >>}

\* Buffer::flush
BufferFlushLocks(i) ==
    {<< Acq(LkData(i)), Call("_flush", 0), Rel(LkData(i)) >>}

\* Buffer::assign_to_block: _flush and file_manager.read under the data lock
AssignToBlockLocks(i) ==
    {<< Acq(LkData(i)), Call("_flush", 0), Call("file", 1), Rel(LkData(i)) >>}

\* BufferManager::unpin: decrement_pins_count under the num_available lock
UnpinLocks(i) ==
    {<< Acq(LkNa), Acq(LkData(i)), Rel(LkData(i)), Rel(LkNa) >>}

\* a pin count that is tested and incremented under one data lock, which is
\* held while num_available is decremented
PinCountUnderDataLocks(i) ==
    {<< Acq(LkData(i)), Rel(LkData(i)) >>,
     << Acq(LkData(i)), Acq(LkNa), Rel(LkNa), Rel(LkData(i)) >>}

\* the end of try_to_pin: num_available locked for the debug line when debug
\* logging is on, is_not_pinned, num_available decremented under its lock if
\* so, increment_pins_count
PinCountLocks(i) ==
    {dbg \o ProbeLocks(i) \o dec \o ProbeLocks(i) :
        dbg \in {<< >>, << Acq(LkNa), Rel(LkNa) >>},
        dec \in {<< >>, << Acq(LkNa), Rel(LkNa) >>}}

\* choose_unpinned_buffer with n more waits allowed by the deadline: the scan
\* finds buffer i, or finds none and waits on the Condvar; then try_to_pin
\* goes on with assign_to_block
ChooseUnpinnedBufferLocks(n) ==
    {ProbesTo(i) \o << Call("assign_to_block", i), Call("pin_count", i) >> : i \in Pool}
    \cup {ProbesTo(PoolSize)
          \o << Acq(LkNa), Rel(LkNa), Acq(LkNa), Rel(LkNa) >>
          \o (IF n > 0 THEN << Call("choose_unpinned_buffer", n - 1) >> ELSE << >>)}

\* try_to_pin: the scan for the block finds it in buffer i, or finds nothing
TryToPinLocks ==
    {ProbesTo(i) \o << Call("pin_count", i) >> : i \in Pool}
    \cup {ProbesTo(PoolSize) \o << Call("choose_unpinned_buffer", MaxWaits) >>}

\* flush_all from buffer i on: modifying_transaction_number, then flush if
\* the buffer belongs to the transaction
FlushAllLocks(i) ==
    LET rest == IF i < PoolSize THEN << Call("flush_all", i + 1) >> ELSE << >>
    IN {ProbeLocks(i) \o rest, ProbeLocks(i) \o << Call("flush", i) >> \o rest}

\* the alternatives of a call
LockProgram(c) ==
    CASE c[1] = "get_or_create" -> GetOrCreateLocks
      [] c[1] = "file" -> FileManagerLocks(c[2])
      [] c[1] = "log_flush" -> LogFlushLocks
      [] c[1] = "append" -> LogAppendLocks
      [] c[1] = "iter" -> LogIterLocks
      [] c[1] = "_flush" -> BufferInnerFlushLocks
      [] c[1] = "flush" -> BufferFlushLocks(c[2])
      [] c[1] = "assign_to_block" -> AssignToBlockLocks(c[2])
      [] c[1] = "unpin" -> UnpinLocks(c[2])
      [] c[1] = "pin_count" -> PinCountLocks(c[2])
      [] c[1] = "choose_unpinned_buffer" -> ChooseUnpinnedBufferLocks(c[2])
      [] c[1] = "pin" -> TryToPinLocks
      [] c[1] = "flush_all" -> FlushAllLocks(c[2])

\* the calls of the public operations; next, read and write are a
\* FileManager call on the log file or on the data file
LockCalls ==
    {<<"pin", 0>>, <<"flush_all", 1>>, <<"append", 0>>, <<"log_flush", 0>>,
     <<"iter", 0>>, <<"file", 0>>, <<"file", 1>>}
    \cup {<<"unpin", i>> : i \in Pool} \cup {<<"flush", i>> : i \in Pool}

HeldBy(t) == {p[1] : p \in {q \in lock_state.held : q[2] = t}}

\* the threads whose hold on a lock keeps l from being acquired: any holder
\* of a Mutex, the writer for a reader of the RwLock, everyone for a writer
Blockers(l) ==
    {p[2] : p \in {q \in lock_state.held :
                      IF l = LkMapRead THEN q[1] = LkMapWrite
                      ELSE IF l = LkMapWrite THEN q[1] \in {LkMapRead, LkMapWrite}
                      ELSE q[1] = l}}

LockNext(t) == Head(lock_state.prog[t])

Blocked(t) ==
    /\ lock_state.prog[t] # << >>
    /\ LockNext(t).k = "acq"
    /\ Blockers(LockNext(t).l) # {}

\* some threads wait for locks that only threads among them hold
LockCycle ==
    \E S \in SUBSET Threads :
        /\ S # {}
        /\ \A t \in S : Blocked(t) /\ Blockers(LockNext(t).l) \subseteq S

LockStep(ls) ==
    /\ lock_state' = ls
    /\ UNCHANGED <<poolVars, disk, logVars, threadVars, lastOp, fileVars, clones,
                   codec, byte_buffer, page_call, fm_call, log_iter, os_file>>

\* a thread starts one of the operations
LockCall(t, c) ==
    /\ lock_state.prog[t] = << >>
    /\ LockStep([lock_state EXCEPT !.prog[t] = << Call(c[1], c[2]) >>])

\* the running call enters a function: one of its branches is taken
LockEnter(t) ==
    /\ lock_state.prog[t] # << >>
    /\ LockNext(t).k = "call"
    /\ \E body \in LockProgram(LockNext(t).l) :
          LockStep([lock_state EXCEPT !.prog[t] = body \o Tail(@)])

\* lock(), read() or write() returns the guard
LockAcquire(t) ==
    /\ lock_state.prog[t] # << >>
    /\ LockNext(t).k = "acq"
    /\ Blockers(LockNext(t).l) = {}
    /\ LockStep([lock_state EXCEPT
                   !.prog[t] = Tail(@),
                   !.held = @ \cup {<<LockNext(t).l, t>>},
                   !.order = @ \cup {<<x[1], LockNext(t).l[1]>> : x \in HeldBy(t)}])

\* the guard is dropped
LockRelease(t) ==
    /\ lock_state.prog[t] # << >>
    /\ LockNext(t).k = "rel"
    /\ LockStep([lock_state EXCEPT !.prog[t] = Tail(@),
                                   !.held = @ \ {<<LockNext(t).l, t>>}])

LockSpecNext ==
    \E t \in Threads :
        \/ \E c \in LockCalls : LockCall(t, c)
        \/ LockEnter(t)
        \/ LockAcquire(t)
        \/ LockRelease(t)

LockSpec == Init /\ [][LockSpecNext]_vars

----------------------------------------------------------------------------
(* Calls of the codecs: a value is serialized into a buffer and the bytes
   are deserialized again; the values are those of the codec tests, and the
   initial state holds one of them with its buffer *)

MaxPower == 62
MaxSlack == 1

\* 2^p - 1, 2^p, 2^p + 1 and their negatives, i64::MIN and i64::MAX
VarintValues ==
    UNION {{Dec(Shl1(p)), Shl1(p), Inc(Shl1(p)),
            Inc(Neg(Shl1(p))), Neg(Shl1(p)), Dec(Neg(Shl1(p)))} : p \in 1..MaxPower}
    \cup {Shl1(63), Dec(Shl1(63))}

\* 2^p - 1, 2^p, 2^p + 1 and usize::MAX
VarcountValues ==
    UNION {{Dec(Shl1(p)), Shl1(p), Inc(Shl1(p))} : p \in 1..(MaxPower + 1)}
    \cup {Dec(Zero64)}

\* 0, MIN and MAX of the signed and the unsigned integers of every width
FixedValues ==
    UNION {{[i \in 1..w |-> 0], [i \in 1..w |-> 255],
            [i \in 1..w |-> IF i = 1 THEN 128 ELSE 0],
            [i \in 1..w |-> IF i = 1 THEN 127 ELSE 255]} : w \in {1, 2, 4, 8, 16}}

\* "" and "abc"
VarcharValues == {<< >>, << 97, 98, 99 >>}

SimpleValues ==
    {Varint(v) : v \in VarintValues} \cup {Varcount(v) : v \in VarcountValues}
    \cup {Fixed(v) : v \in FixedValues} \cup {Varchar(d) : d \in VarcharValues}

\* pairs of a Varcount or a Varint with a Varchar or a Varint
VarpairValues ==
    {Varpair(l, r) :
        l \in {Varcount(U64Of(42)), Varint(U64Of(42)), Varint(Neg(U64Of(1)))},
        r \in {Varchar(<< >>), Varchar(<< 97, 98, 99 >>), Varint(Zero64)}}

CodecValues == SimpleValues \cup VarpairValues

\* the buffers for x: of the serialized length or longer, zeroed or still
\* holding the bytes 0xFF of an earlier value
CodecBuffers(x) ==
    {[i \in 1..n |-> fill] :
        n \in SerializedLength(x)..(SerializedLength(x) + MaxSlack), fill \in {0, 255}}

\* a value and the buffer it is about to be serialized into
CodecInit ==
    /\ InitManagers
    /\ \E x \in CodecValues : \E buffer \in CodecBuffers(x) :
          codec = [NoCodec EXCEPT !.st = "called", !.value = x, !.before = buffer]

\* value.serialize(&mut buffer)
CodecSerialize ==
    /\ codec.st = "called"
    /\ codec' = [codec EXCEPT !.st = "serialized",
                              !.length = SerializedLength(codec.value),
                              !.out = Serialize(codec.value, codec.before)]
    /\ UNCHANGED <<poolVars, disk, logVars, threadVars, lastOp, fileVars, clones,
                   byte_buffer, page_call, fm_call, moreVars>>

\* T::deserialize(&buffer) of the buffer just written
CodecDeserialize ==
    /\ codec.st = "serialized"
    /\ codec.out # PanicBytes
    /\ codec' = [codec EXCEPT !.st = "deserialized",
                              !.back = Deserialize(codec.value, codec.out)]
    /\ UNCHANGED <<poolVars, disk, logVars, threadVars, lastOp, fileVars, clones,
                   byte_buffer, page_call, fm_call, moreVars>>

CodecNext ==
    \/ CodecSerialize
    \/ CodecDeserialize

CodecSpec == CodecInit /\ [][CodecNext]_vars

----------------------------------------------------------------------------
(* Claims about the buffer pool under concurrent callers (Spec) *)

AllIdle == \A t \in Threads : pc[t] = "idle"

Unpinned == {i \in Pool : ~IsPinned(bufs[i])}

\* C1: once every pin and unpin call has returned, num_available lies in
\* 0..pool_size and equals the number of buffers whose pin count is 0
C1_Accounting ==
    AllIdle => /\ num_available \in 0..PoolSize
               /\ num_available = Cardinality(Unpinned)

\* C2: a buffer whose pin count is > 0 is never passed through
\* assign_to_block: every assign step works on an unpinned buffer
C2_NoPinnedReassign ==
    [][\A t \in Threads :
         (pc[t] = "assign" /\ pc'[t] = "check_pinned") => ~IsPinned(bufs[tbuf[t]])]_vars

\* C3: when pin(b) returns Ok while the pin calls of the other threads are
\* for other blocks, the returned buffer is bound to b and its pin count is >= 1
C3_PinReturnsBound ==
    [][\A t \in Threads :
         (/\ pc[t] = "inc_pins"
          /\ pc'[t] = "idle"
          /\ \A u \in Threads \ {t} : targ[u] # targ[t])
         => /\ bufs'[tbuf[t]].block = targ[t]
            /\ bufs'[tbuf[t]].pins_count >= 1]_vars

----------------------------------------------------------------------------
(* Claims about a single caller of the pool (PinSeqFairSpec, SeqSpec) *)

InPin(t) ==
    pc[t] \in {"find", "choose", "wait_enter", "waiting", "woken", "assign",
               "check_pinned", "dec_na", "inc_pins"}

\* C4: pin(b) on a pool whose buffers are all pinned and none bound to b
\* returns DeadLockTimeout; once a buffer is unpinned, or b is bound, pin(b)
\* returns a buffer; neither call blocks forever
C4_ExhaustionTimesOut ==
    /\ (InPin(1) /\ Exhausted(targ[1]))
          ~> (pc[1] = "idle" /\ result[1] = "DeadLockTimeout")
    /\ (InPin(1) /\ ~Exhausted(targ[1]))
          ~> (pc[1] = "idle" /\ result[1] = "Ok")

\* a pin has just failed on an exhausted pool
C4_Witness ==
    /\ pc[1] = "idle"
    /\ result[1] = "DeadLockTimeout"
    /\ \A i \in Pool : IsPinned(bufs[i])

\* C5: a step that writes a dirty page whose log_sequence_number is l leaves
\* the log flushed at least up to l (last_saved >= l)
C5_WriteAheadLog ==
    [][\A i \in Pool :
         (/\ bufs[i].transaction # NoTx
          /\ bufs'[i].transaction = NoTx
          /\ bufs[i].log_sequence_number # NoLsn)
         => head'.last_saved >= bufs[i].log_sequence_number]_vars

\* C10: the step that reassigns a dirty buffer to another block writes the
\* modified page to the block the buffer was bound to, binds the new block
\* and reads it
C10_WriteOnEviction ==
    [][\A t \in Threads :
         (/\ pc[t] = "assign"
          /\ pc'[t] = "check_pinned"
          /\ bufs[tbuf[t]].transaction # NoTx
          /\ bufs[tbuf[t]].block # targ[t])
         => /\ FmRead(disk', bufs[tbuf[t]].block) = bufs[tbuf[t]].page
            /\ bufs'[tbuf[t]].block = targ[t]
            /\ bufs'[tbuf[t]].page = FmRead(disk', targ[t])
            /\ bufs'[tbuf[t]].transaction = NoTx]_vars

\* a dirty buffer has just been reassigned and its old block holds the
\* modified page on disk
C10_Witness ==
    /\ lastOp.op = "evict"
    /\ pc[1] = "check_pinned"
    /\ bufs[lastOp.buf].block # lastOp.block
    /\ FmRead(disk, lastOp.block) # ZeroPage

----------------------------------------------------------------------------
(* Claims about the log manager (LogSpec) *)

Reverse(sq) == [k \in 1..Len(sq) |-> sq[Len(sq) + 1 - k]]

\* C6: the LSNs returned by the N appends made so far are 1..N, each
\* returned once, and the head's latest is N
C6_UniqueLsns ==
    /\ Len(returned) = Len(hist)
    /\ {returned[k] : k \in 1..Len(returned)} = 1..Len(hist)
    /\ \A j, k \in 1..Len(returned) : returned[j] = returned[k] => j = k
    /\ head.latest = Len(hist)

\* appends by the callers have filled more than one block
C6_Witness == Len(returned) = MaxAppends /\ head.block > 0

\* C7: right after flush(LSN of the last appended record), iter() yields all
\* appended records, newest first, with their original bytes
C7_IterNewestFirst ==
    (lastOp.op = "flush" /\ lastOp.lsn = head.latest)
        => LogRecords(head, logfile) = Reverse(hist)

\* different records spanning several blocks have been appended and flushed
C7_Witness ==
    /\ lastOp.op = "flush"
    /\ lastOp.lsn = head.latest
    /\ Len(hist) >= 3
    /\ head.block > 0
    /\ hist[1] # hist[2]

\* C8: iter() yields exactly the records with LSN <= last_saved, newest
\* first; records held only by the in-memory head page are not yielded
C8_IterYieldsSaved ==
    LogRecords(head, logfile) = Reverse(SubSeq(hist, 1, head.last_saved))

\* some records are saved, others exist only in the head page
C8_Witness ==
    /\ head.last_saved > 0
    /\ head.last_saved < head.latest
    /\ head.block > 0
    /\ Len(LogRecords(head, logfile)) = head.last_saved

\* C9: flush(lsn) writes the head page and sets last_saved to latest whenever
\* lsn >= last_saved, and does nothing when lsn < last_saved
C9_FlushGuard ==
    [][lastOp'.op = "flush" =>
         IF lastOp'.lsn >= head.last_saved
         THEN /\ head'.last_saved = head.latest
              /\ FmRead(logfile', head.block) = head.page
         ELSE UNCHANGED <<head, logfile>>]_vars

\* C20: in every reachable state of the log manager, last_saved <= latest
C20_SavedAtMostLatest == head.last_saved <= head.latest

\* a flush has saved some records and later appends are not saved yet
C20_Witness ==
    /\ lastOp.op # "flush"
    /\ 0 < head.last_saved
    /\ head.last_saved < head.latest

----------------------------------------------------------------------------
(* Claims about pin and unpin of a single caller (PinSeqSpec, EvictSpec) *)

\* C18: the unpin that leaves the pin count above zero leaves num_available
\* unchanged; only the unpin that brings the count to zero increments it
C18_UnpinCountsLastOnly ==
    [][(pc[1] = "unpin_inc" /\ pc'[1] = "idle")
       => num_available' = IF bufs[tbuf[1]].pins_count = 0
                           THEN num_available + 1
                           ELSE num_available]_vars

\* C19: with one caller, pin(b) of a block that is bound to a buffer returns
\* that buffer with its pin count one higher, its block and page as they
\* were and the disk untouched, and num_available lower by 1 if the buffer
\* was unpinned and unchanged if it was pinned; pin(b) of a block bound to no
\* buffer lowers num_available by exactly 1
C19_PinAccounting ==
    [][/\ (InPin(1) /\ pre[1].buf # 0)
          => /\ pc'[1] # "assign"
             /\ disk' = disk
             /\ bufs'[pre[1].buf].block = bufs[pre[1].buf].block
             /\ bufs'[pre[1].buf].page = bufs[pre[1].buf].page
       /\ (pc[1] = "inc_pins" /\ pc'[1] = "idle")
          => IF pre[1].buf # 0
             THEN /\ tbuf[1] = pre[1].buf
                  /\ bufs'[tbuf[1]].block = targ[1]
                  /\ bufs'[tbuf[1]].pins_count = pre[1].pins + 1
                  /\ num_available' = IF pre[1].pins = 0 THEN pre[1].na - 1
                                      ELSE pre[1].na
             ELSE num_available' = pre[1].na - 1]_vars

\* pin of a block whose buffer is pinned already is about to return, with
\* num_available as the call found it, and that buffer holds a
\* modified page
C19_Witness ==
    /\ pc[1] = "inc_pins"
    /\ pre[1].buf # 0
    /\ pre[1].pins > 0
    /\ num_available = pre[1].na
    /\ bufs[pre[1].buf].transaction # NoTx

----------------------------------------------------------------------------
(* Claims about the handle cache under concurrent callers (CacheSpec,
   SharedFileSpec) and about FileManager read and write (FileSpec) *)

Min(a, b) == IF a <= b THEN a ELSE b

\* C12: len_open never exceeds the capacity and equals the smaller of the
\* capacity and the number of distinct keys opened successfully so far, which
\* is also the number of entries that hold a handle
C12_LenOpen ==
    /\ open_resources <= MaxOpenFiles
    /\ open_resources = Min(MaxOpenFiles, Cardinality(KnownKeys(internal_hash_map)))
    /\ open_resources = Cardinality(OpenKeys(internal_hash_map))

\* more keys were opened than the cache may hold open, while a caller is
\* inside get_or_create
C12_Witness ==
    /\ open_resources = MaxOpenFiles
    /\ Cardinality(KnownKeys(internal_hash_map)) > MaxOpenFiles
    /\ \E t \in Threads : fpc[t] = "get_file_write"

\* C13: a get_or_create that opens a handle while len_open = capacity takes
\* the handle from exactly one entry, an open entry of minimum freshness; the
\* key of that entry stays known, no key is forgotten, and every other open
\* entry keeps its handle
C13_EvictsMinFreshness ==
    [][(Len(handles') > Len(handles) /\ open_resources = MaxOpenFiles)
       => LET m == internal_hash_map
              before == OpenKeys(m)
              lost == before \ OpenKeys(internal_hash_map')
          IN /\ Cardinality(lost) = 1
             /\ \A k \in lost : /\ \A j \in before : m[k].freshness <= m[j].freshness
                                /\ internal_hash_map'[k].known
                                /\ internal_hash_map'[k].resource = NoHandle
             /\ KnownKeys(m) \subseteq KnownKeys(internal_hash_map')
             /\ \A k \in before \ lost :
                    internal_hash_map'[k].resource = m[k].resource]_vars

\* an entry is cold while the cache is full, and the entry opened first is
\* still open: the freshness order is not the order of opening
C13_Witness ==
    /\ Cardinality(OpenKeys(internal_hash_map)) = MaxOpenFiles
    /\ \E k \in KnownKeys(internal_hash_map) \ OpenKeys(internal_hash_map) : TRUE
    /\ \E k \in OpenKeys(internal_hash_map) : internal_hash_map[k].resource = 1

\* C14: no two read / write calls on the same file are between the lock of
\* the file handle and its release at the same time
C14_PerFileSerialization ==
    \A t \in Threads : \A u \in Threads \ {t} :
        ~(fpc[t] = "io" /\ fpc[u] = "io" /\ fop[t].file = fop[u].file)

\* C15: a get_or_create whose factory fails returns the error and leaves the
\* known keys, the open entries, len_open, every freshness and the access
\* counter as they were
C15_FailedOpenNoChange ==
    [][\A t \in Threads :
         (fpc[t] = "get_file_write" /\ fpc'[t] = "idle")
         => /\ lastOp'.op = "open_failed"
            /\ UNCHANGED <<internal_hash_map, open_resources, access_counter>>]_vars

\* the factory has just failed on a full cache that knows a cold entry
C15_Witness ==
    /\ lastOp.op = "open_failed"
    /\ open_resources = MaxOpenFiles
    /\ KnownKeys(internal_hash_map) # OpenKeys(internal_hash_map)

\* C16: a read of a block hands out the page that the last write to that
\* block wrote, whatever was written to other blocks and files since and
\* whether or not the handle of the file was evicted and reopened since
C16_RoundTrip ==
    [][(/\ fpc[1] = "io"
        /\ fpc'[1] = "idle"
        /\ fop[1].kind = "read"
        /\ written[fop[1].file][fop[1].block] # NoPage)
       => ReadResult(fop[1].file, fop[1].block) = written[fop[1].file][fop[1].block]]_vars

\* a read of a written block is in its transfer section on a handle that is
\* not the first handle of the file, after another block was written too
C16_Witness ==
    /\ fpc[1] = "io"
    /\ fop[1].kind = "read"
    /\ written[fop[1].file][fop[1].block] # NoPage
    /\ Cardinality(WrittenBlocks) > 1
    /\ fhandle[1] > MaxOpenFiles + 1

----------------------------------------------------------------------------
(* Claims about the buffers of a single caller that modifies and flushes
   (BufSpec) *)

\* C11: a step of modify_page, of unpin, or of a pin whose block is bound to
\* a buffer leaves the data file as it is; a data block changes on disk only
\* when a dirty buffer bound to it is flushed (flush, flush_all) or
\* reassigned, and then it takes the page of that buffer
C11_DiskWrittenOnlyByFlush ==
    [][/\ ((\/ pc[1] \in {"unpin_dec", "unpin_inc"}
            \/ pc'[1] = "unpin_dec"
            \/ InPin(1) /\ pre[1].buf # 0
            \/ \E i \in Pool : /\ bufs'[i] # bufs[i]
                                /\ bufs'[i].transaction # NoTx
                                /\ bufs'[i].pins_count = bufs[i].pins_count)
           => disk' = disk)
       /\ \A b \in Blocks :
            FmRead(disk', b) # FmRead(disk, b)
            => \E i \in Pool :
                  /\ bufs[i].block = b
                  /\ bufs[i].transaction # NoTx
                  /\ bufs'[i].transaction = NoTx
                  /\ FmRead(disk', b) = bufs[i].page
                  /\ pc' = pc \/ (pc[1] = "assign" /\ tbuf[1] = i)]_vars

\* a block was pinned a second time, its page modified and the buffer
\* unpinned: the block on disk still differs from the page in the buffer
C11_Witness ==
    /\ pc[1] = "idle"
    /\ calls >= 2
    /\ \E i \in Pool : /\ bufs[i].transaction # NoTx
                        /\ bufs[i].pins_count = 0
                        /\ FmRead(disk, bufs[i].block) # bufs[i].page

\* C17: flush_all(tx) leaves no buffer modified by tx; every buffer that was
\* modified by tx has its page on disk in its block; a buffer modified by
\* another transaction stays as it was, dirty, and its block on disk is
\* unchanged
C17_FlushAllFrame ==
    [][(lastOp'.op = "flush_all" /\ pc[1] = "idle" /\ pc' = pc)
       => \A i \in Pool :
            /\ bufs'[i].transaction # lastOp'.tx
            /\ bufs[i].transaction = lastOp'.tx
               => /\ FmRead(disk', bufs[i].block) = bufs[i].page
                  /\ bufs'[i] = [bufs[i] EXCEPT !.transaction = NoTx]
            /\ bufs[i].transaction \notin {NoTx, lastOp'.tx}
               => /\ bufs'[i] = bufs[i]
                  /\ FmRead(disk', bufs[i].block) = FmRead(disk, bufs[i].block)]_vars

\* flush_all has written the page of one transaction's buffer while the
\* buffer of another transaction is still dirty and not on disk
C17_Witness ==
    /\ lastOp.op = "flush_all"
    /\ \E i \in Pool : /\ bufs[i].transaction \notin {NoTx, lastOp.tx}
                        /\ FmRead(disk, bufs[i].block) # bufs[i].page
    /\ \E j \in Pool : /\ bufs[j].transaction = NoTx
                        /\ bufs[j].page # ZeroPage
                        /\ FmRead(disk, bufs[j].block) = bufs[j].page

----------------------------------------------------------------------------
(* Claims about the freshness of cache hits (CacheSpec) *)

\* C29: every get_or_create that hits an open entry, under the read lock or
\* under the write lock, sets the entry's freshness to the access counter
\* plus half its old freshness and increments the access counter
C29_HitRefreshes ==
    [][\A t \in Threads :
         (/\ fpc[t] \in {"get_file", "get_file_write"}
          /\ fpc'[t] = "lock"
          /\ fop[t].file \in OpenKeys(internal_hash_map))
         => /\ internal_hash_map'[fop[t].file].freshness
                 = access_counter + (internal_hash_map[fop[t].file].freshness \div 2)
            /\ access_counter' = access_counter + 1]_vars

----------------------------------------------------------------------------
(* Claims about concurrent pins of one block (Spec) *)

\* C30: when two threads pin, at the same time, the same block that is bound
\* to an unpinned buffer, num_available is decremented exactly once: with
\* both calls about to return that buffer and no other thread at work,
\* num_available is one below what the two calls found
C30_ConcurrentPinDecrementsOnce ==
    \A t \in Threads : \A u \in Threads \ {t} :
        (/\ pc[t] = "inc_pins" /\ pc[u] = "inc_pins"
         /\ targ[t] = targ[u]
         /\ pre[t] = pre[u]
         /\ pre[t].buf # 0
         /\ pre[t].pins = 0
         /\ tbuf[t] = pre[t].buf /\ tbuf[u] = pre[u].buf
         /\ \A w \in Threads \ {t, u} :
               pc[w] = "idle" /\ \A i \in Pool : held[w][i] = 0)
        => num_available = pre[t].na - 1

----------------------------------------------------------------------------
(* Claims about the boundary of the log head page (LongLogSpec) *)

\* C21: after any sequence of append calls, with records of any length, the
\* boundary stored in bytes [0, 4) of the head page is at least 4 and at
\* most the block size
C21_BoundaryInRange ==
    /\ 4 <= get_i32(head.page, 0)
    /\ get_i32(head.page, 0) <= BlockSize

----------------------------------------------------------------------------
(* Claims about the public operations of a Buffer (BufferApiSpec) *)

\* C22: in every state reachable through the public operations of Buffer
\* and of the pool, a buffer whose modifying transaction is set is bound to
\* a block
C22_ModifiedIsBound ==
    \A i \in Pool : bufs[i].transaction # NoTx => bufs[i].block # NoBlock

----------------------------------------------------------------------------
(* Claims about the clones of a Buffer (CloneSpec) *)

\* what a caller sees through the handle h: page().get_contents(), block(),
\* modifying_transaction_number(), is_pinned(), or the panic of a poisoned
\* data lock
Observe(h) ==
    IF bufPoisoned[clones[h].data] THEN [poisoned |-> TRUE]
    ELSE [poisoned |-> FALSE,
          contents |-> bufs[clones[h].data].page,
          block |-> bufs[clones[h].data].block,
          transaction |-> bufs[clones[h].data].transaction,
          pins_count |-> bufs[clones[h].data].pins_count]

\* C28: all clones of a Buffer share one state: whatever page modification,
\* block binding, pin count change or flush was made through one handle, every
\* handle cloned from the same buffer observes the same buffer
C28_ClonesShareState ==
    \A g \in Handles : \A h \in Handles :
        clones[g].of = clones[h].of => Observe(g) = Observe(h)

\* a buffer with two clones has been bound, pinned and modified, and has
\* just been flushed
C28_Witness ==
    /\ Cardinality({h \in Handles : clones[h].of = 1}) >= 3
    /\ lastOp.op = "flush"
    /\ bufs[1].block # NoBlock
    /\ bufs[1].pins_count > 0
    /\ bufs[1].page # ZeroPage
    /\ bufs[1].transaction = NoTx

----------------------------------------------------------------------------
(* Claims about concurrent operations on one Page (PageSpec) *)

\* C27: set_bytes and get_bytes are atomic with respect to each other: a
\* get_bytes that runs concurrently with set_bytes at the same offset returns
\* the complete old value or the complete new value
C27_BytesAtomic ==
    \A t \in Threads \ {1} :
        (page_call[t].pc = "idle" /\ page_call[t].op = "get_bytes")
        => page_call[t].value \in page_call[t].allowed

----------------------------------------------------------------------------
(* Claims about I/O failures inside the FileManager (FaultSpec) *)

\* C23: every failure of an open, seek, read, write or flush inside read,
\* write, append or block_length is returned to the caller as an IoError:
\* the call neither panics nor returns Ok
C23_FailureReturned ==
    fm_call.failed # "none" => fm_call.outcome = "IoError"

----------------------------------------------------------------------------
(* Claims about the codecs (CodecSpec) *)

Serialized == codec.st \in {"serialized", "deserialized"}

\* C24: for every codec type and every value v, deserialize(serialize(v)) = v
\* when the buffer has exactly serialized_length(v) bytes, zeroed or still
\* holding the bytes of an earlier value
C24_CodecRoundTrip ==
    (Serialized /\ Len(codec.before) = SerializedLength(codec.value))
    => /\ codec.out # PanicBytes
       /\ codec.st = "deserialized" => codec.back = codec.value

\* C25: the serialized length of a Varint v is the smallest N in 1..=8 with
\* -2^(7N-1) <= v < 2^(7N-1), and 9 if there is none; a small negative value
\* such as -1 takes 1 byte
C25_VarintLength ==
    (Serialized /\ Len(codec.value) = 1 /\ codec.value[1].kind = "Varint")
    => LET v == codec.value[1].v
       IN codec.length = FirstOr9({n \in 1..8 : /\ ~ILess(v, Neg(Shl1(7 * n - 1)))
                                                /\ ILess(v, Shl1(7 * n - 1))})

\* C26: for every codec value v and every buffer of at least
\* serialized_length(v) bytes, serialize succeeds and leaves the bytes behind
\* the first serialized_length(v) as they were
C26_SerializeFrame ==
    (Serialized /\ Len(codec.before) >= SerializedLength(codec.value))
    => /\ codec.out # PanicBytes
       /\ Len(codec.out) = Len(codec.before)
       /\ \A i \in (codec.length + 1)..Len(codec.before) : codec.out[i] = codec.before[i]

----------------------------------------------------------------------------
(* Claims about the wait of pin for an unpinned buffer (Spec) *)

\* C31: a pin fails with DeadLockTimeout only if the pool stayed exhausted for
\* the whole wait: when the wait of a pin times out while no other thread is
\* inside a call, so that every unpin made since the pin's scan has returned
\* and nobody has taken the buffer it freed, every buffer of the pool is pinned
C31_TimeoutOnlyIfExhausted ==
    [][\A t \in Threads :
         (/\ pc[t] = "waiting"
          /\ pc'[t] = "woken"
          /\ timedOut'[t]
          /\ \A u \in Threads \ {t} : pc[u] = "idle")
         => \A i \in Pool : IsPinned(bufs[i])]_vars

\* C32: in every reachable state of concurrent pin and unpin calls, no two
\* buffers of the pool are bound to the same block
C32_UniqueBinding ==
    \A i \in Pool : \A j \in Pool \ {i} :
        bufs[i].block # NoBlock => bufs[i].block # bufs[j].block

----------------------------------------------------------------------------
(* Claims about the rotation of the log head (LogSpec) *)

\* C34: an append that rotates to a new block has written the complete old
\* head page to its block and set last_saved to the value latest had before
\* the append; and at every time the records of the blocks below the head
\* block are on disk: the records of the head page in memory followed by the
\* records read from the blocks below it on disk are all the records appended
C34_RotationSavesOldHead ==
    [][/\ head'.block # head.block
          => /\ FmRead(logfile', head.block) = head.page
             /\ head'.last_saved = head.latest
       /\ LET it == [block |-> head'.block, page |-> head'.page,
                     pos_current |-> get_i32(head'.page, 0),
                     boundary |-> get_i32(head'.page, 0)]
          IN IterDrain(it, logfile', MaxAppends + 3) = Reverse(hist')]_vars

\* the last append rotated: the head page holds one record, the others are
\* in the blocks below
C34_Witness ==
    /\ head.block > 0
    /\ Len(hist) >= 3
    /\ head.last_saved = head.latest - 1
    /\ get_i32(head.page, 0) + 4 + Len(hist[Len(hist)]) = BlockSize

----------------------------------------------------------------------------
(* Claims about the rotation test of append (LogSpec) *)

\* C35 as claimed: with need = record_len + 4 + 4, an append allocates a new
\* block exactly when boundary < need + 4 (= record_len + 12); in both cases
\* the record is written at record_pos = boundary - (record_len + 4), boundary
\* being block_size after a rotation, and the boundary becomes record_pos
C35_RotatesBelowNeedPlus4 ==
    [][Len(hist') > Len(hist) =>
         LET rec == hist'[Len(hist')]
             boundary == get_i32(head.page, 0)
             rotated == head'.block # head.block
             record_pos == (IF rotated THEN BlockSize ELSE boundary) - (Len(rec) + 4)
         IN /\ rotated <=> boundary < (Len(rec) + 4 + 4) + 4
            /\ get_i32(head'.page, 0) = record_pos
            /\ get_bytes(head'.page, record_pos) = rec]_vars

\* C35 amended: an append allocates a new block exactly when
\* boundary < record_len + 4 + 4 (= record_len + 8); in both cases the record
\* is written at record_pos = boundary - (record_len + 4), boundary being
\* block_size after a rotation, and the boundary becomes record_pos
C35_RotatesBelowRecordPlus8 ==
    [][Len(hist') > Len(hist) =>
         LET rec == hist'[Len(hist')]
             boundary == get_i32(head.page, 0)
             rotated == head'.block # head.block
             record_pos == (IF rotated THEN BlockSize ELSE boundary) - (Len(rec) + 4)
         IN /\ rotated <=> boundary < Len(rec) + 4 + 4
            /\ get_i32(head'.page, 0) = record_pos
            /\ get_bytes(head'.page, record_pos) = rec]_vars

\* the last record was placed in block 0 although the boundary it found was
\* below record_len + 12
C35_Witness ==
    /\ head.block = 0
    /\ Len(hist) >= 2
    /\ LET len == Len(hist[Len(hist)])
       IN get_i32(head.page, 0) + len + 4 < len + 12

----------------------------------------------------------------------------
(* Claims about the log iterator (IterSpec, LongIterSpec) *)

\* C36: the records an iterator yields are fixed when iter() returns: whatever
\* the callers append, rotate and flush between its next() calls, the records
\* yielded so far are the first of the records the log file held for the
\* iterator at iter(), in the same order, and an iterator that has returned
\* None has yielded exactly those
C36_IterFixedAtCreation ==
    /\ log_iter.st # "panicked"
    /\ log_iter.st \in {"open", "done"} =>
         /\ Len(log_iter.yielded) <= Len(log_iter.on_disk)
         /\ log_iter.yielded = SubSeq(log_iter.on_disk, 1, Len(log_iter.yielded))
    /\ log_iter.st = "done" => log_iter.yielded = log_iter.on_disk

\* the iterator has ended after yielding different records, the log has
\* rotated, and more records than it yielded have been saved since iter()
C36_Witness ==
    /\ log_iter.st = "done"
    /\ Len(log_iter.yielded) >= 2
    /\ log_iter.yielded[1] # log_iter.yielded[2]
    /\ head.last_saved > Len(log_iter.yielded)
    /\ head.block > 0

\* C37: for every log reachable by appends and flushes, next() returns None
\* after finitely many calls, right after the oldest record of block 0: the
\* iterator never panics and yields at most one record per appended record,
\* its cursor never passes block_size, and when it has returned None it
\* stands at block_size in block 0
C37_IterTerminates ==
    /\ log_iter.st # "panicked"
    /\ log_iter.st \in {"open", "done"} =>
         /\ log_iter.pos_current <= BlockSize
         /\ log_iter.block >= 0
         /\ Len(log_iter.yielded) <= Len(hist)
    /\ log_iter.st = "done" => log_iter.block = 0 /\ log_iter.pos_current = BlockSize

----------------------------------------------------------------------------
(* Claims about concurrent misses of the handle cache (CacheSpec) *)

\* C38: as long as no key has been evicted (no more handles were created than
\* the cache can hold open), the factory has been invoked at most once for
\* every key, and the calls that are under way for the same key have got the
\* same handle, also when several of them missed under the read lock
C38_FactoryOncePerKey ==
    Len(handles) <= MaxOpenFiles =>
        /\ \A i \in DOMAIN handles : \A j \in DOMAIN handles :
              handles[i].file = handles[j].file => i = j
        /\ \A t \in Threads : \A u \in Threads :
              (/\ fop[t].file = fop[u].file
               /\ fhandle[t] # NoHandle
               /\ fhandle[u] # NoHandle) => fhandle[t] = fhandle[u]

\* two calls for the same key hold the one handle that was created, and one
\* of them found it only when it looked again under the write lock (the hit
\* under the write lock is the only hit that counts an access)
C38_Witness ==
    \E t \in Threads : \E u \in Threads \ {t} :
        /\ fop[t].file = fop[u].file
        /\ fhandle[t] # NoHandle
        /\ fhandle[t] = fhandle[u]
        /\ Len(handles) = 1
        /\ access_counter = 2

----------------------------------------------------------------------------
(* Claims about a failing append (LogFaultSpec) *)

\* C39: an append that returns an I/O error leaves the head as it was before
\* the call: head block, page contents (with the boundary) and latest are
\* unchanged
C39_FailedAppendKeepsHead ==
    [][lastOp'.op = "append_error" =>
         /\ head'.block = head.block
         /\ head'.page = head.page
         /\ head'.latest = head.latest]_vars

----------------------------------------------------------------------------
(* Claims about FileManager::append on a file kept as its bytes (OsFileSpec) *)

\* C40: FileManager::append returns floor(file length / block size) and
\* leaves the length of the file unchanged, an append that follows an append
\* returns the same block number, and the file grows only in a write
C40_AppendLeavesLength ==
    [][/\ os_file'.op = "append" =>
            /\ os_file'.result * BlockSize <= Len(os_file.bytes)
            /\ Len(os_file.bytes) < (os_file'.result + 1) * BlockSize
            /\ os_file'.bytes = os_file.bytes
            /\ OsBlockLength(os_file'.bytes) = OsBlockLength(os_file.bytes)
            /\ os_file.op = "append" => os_file'.result = os_file.result
       /\ Len(os_file'.bytes) > Len(os_file.bytes) => os_file'.op = "write"]_vars

\* an append has returned block 1 of a file of one and a half blocks
C40_Witness ==
    /\ os_file.op = "append"
    /\ os_file.result = 1
    /\ Len(os_file.bytes) = BlockSize + BlockSize \div 2

----------------------------------------------------------------------------
(* Claims about the order of lock acquisitions (LockSpec) *)

\* C33: no two of the locks (handle-cache map, file handle, log head, buffer
\* data, num_available) are ever taken in both orders, a lock of one kind is
\* never taken while one of the same kind is held, and no set of concurrent
\* calls ends up waiting for each other's locks
C33_ConsistentLockOrder ==
    /\ \A p \in lock_state.order : <<p[2], p[1]>> \notin lock_state.order
    /\ ~LockCycle

\* every nesting of the code has happened and a thread is waiting for a lock
\* that another thread holds
C33_Witness ==
    /\ {<<"na", "data">>, <<"data", "head">>, <<"data", "map">>, <<"data", "file">>,
        <<"head", "map">>, <<"head", "file">>} \subseteq lock_state.order
    /\ \E t \in Threads : Blocked(t)

====
